---- MODULE Spec2Model ----
(***************************************************************************)
(* Model of the LogZero processing pipeline: App.Process (package app),    *)
(* Processor.ProcessPathWithContext with its single-file and directory     *)
(* paths (internal/processor), the parser registry entry point, the        *)
(* placeholder parsers and the sink Write loop.                            *)
(***************************************************************************)
EXTENDS Integers, Sequences, FiniteSets, TLC

\* ---------------------------------------------------------------- bounds
MaxFiles == 2        \* most directory entries in one input directory
MaxWorkers == 2      \* largest worker count tried
MaxBuf == 1          \* the explicit buffer_size tried besides 0 (the default)
ProgressCap == 2     \* capacity of the progress channel
MaxSortLen == 13     \* longest slice handed to sort.Sort on its own
MaxBatch == 2        \* most events in one batch handed to a sink on its own
RecLen == 2          \* bytes of one JSONL or CSV record
BufSize == 3         \* bytes the sink's bufio.Writer holds (64 KB, scaled)
FlushEvery == 3      \* records between periodic flushes/commits (10000, scaled)
MaxLines == 3        \* most lines in a file parsed on its own
MaxTicks == 1        \* most advances of the wall clock during one Parse
MaxAttemptsTried == 3  \* largest RetryConfig.MaxAttempts tried
MaxRuns == 2         \* most processing runs in one process
MaxStarts == 3       \* most successful StartProcessing calls of one App

\* processor.go:194, the queue capacity used when bufferSize <= 0
DefaultBufferSize == 100

\* ---------------------------------------------------------------- input
\* A record of a log file as the parser reads it.  match is the set of
\* fields of the event the filter regex matches; bad marks
\* an event the sink fails to encode or insert.
Rec(ts, match, bad) == [ts |-> ts, match |-> match, bad |-> bad]

\* The directory entries filepath.Walk can meet, in lexical order.  ext is
\* the lower-cased extension, shellbag tells whether the base name contains
\* "shellbag", open whether the file can be opened.
Catalog ==
  << [kind |-> "dir",  ext |-> "",     shellbag |-> FALSE, open |-> TRUE,
        recs |-> << >>],
     [kind |-> "file", ext |-> ".pf",  shellbag |-> FALSE, open |-> TRUE,
        recs |-> << >>],
     [kind |-> "file", ext |-> ".dat", shellbag |-> TRUE,  open |-> TRUE,
        recs |-> << >>],
     [kind |-> "file", ext |-> ".log", shellbag |-> FALSE, open |-> FALSE,
        recs |-> << >>],
     [kind |-> "file", ext |-> ".log", shellbag |-> FALSE, open |-> TRUE,
        recs |-> << Rec(2, {"user"}, FALSE), Rec(1, {"path"}, FALSE) >>],
     [kind |-> "file", ext |-> ".log", shellbag |-> FALSE, open |-> TRUE,
        recs |-> << Rec(1, {"message", "host"}, FALSE), Rec(1, {}, TRUE),
                    Rec(0, {"source"}, FALSE), Rec(2, {"user"}, FALSE) >>] >>

CatIdx == 1..Len(Catalog)

\* Directory listings: strictly increasing index sequences (distinct names in
\* lexical order) of at most MaxFiles entries.
RECURSIVE IncSeqs(_, _)
IncSeqs(n, lo) ==
  IF n = 0 THEN { << >> }
  ELSE { << >> } \cup
       UNION { { <<i>> \o s : s \in IncSeqs(n - 1, i + 1) } : i \in lo..Len(Catalog) }

Listings == { s \in IncSeqs(MaxFiles, 1) : Len(s) >= 1 }

FilterPatterns == {"", "valid", "invalid"}

\* ---------------------------------------------------------------- helpers
\* parsers.GetParserForFile: never fails; the .pf extension and a shellbag
\* base name bind to the placeholder parsers, every other file ends at a
\* parser that reads it.
GetParserForFile(c) ==
  IF Catalog[c].ext = ".pf" THEN [parser |-> "PrefetchParser", err |-> "nil"]
  ELSE IF Catalog[c].shellbag
    THEN [parser |-> "ShellbagsParser", err |-> "nil"]
  ELSE [parser |-> "LogParser", err |-> "nil"]

\* Parser.Parse: the placeholders return their dedicated error, a real parser
\* fails when the file cannot be opened and otherwise returns the events.
ParseFile(parser, c) ==
  IF parser = "PrefetchParser"
    THEN [events |-> << >>, err |-> "ErrPrefetchNotSupported"]
  ELSE IF parser = "ShellbagsParser"
    THEN [events |-> << >>, err |-> "ErrShellbagsNotSupported"]
  ELSE IF ~Catalog[c].open
    THEN [events |-> << >>, err |-> "open"]
  ELSE [events |-> [k \in 1..Len(Catalog[c].recs) |->
                      [path |-> c, id |-> k, ts |-> Catalog[c].recs[k].ts,
                       match |-> Catalog[c].recs[k].match,
                       bad |-> Catalog[c].recs[k].bad]],
        err |-> "nil"]

\* a filter condition that does not look at the source field
MatchesFilter_NoSource(e) ==
  ("user" \in e.match) \/ ("host" \in e.match) \/ ("message" \in e.match)

\* The filter loop: keep an event iff the regex matches user, host, message
\* or source.
MatchesFilter(e) ==
  ("user" \in e.match) \/ ("host" \in e.match) \/
  ("message" \in e.match) \/ ("source" \in e.match)

ApplyFilter(pattern, events) ==
  IF pattern = "" THEN events
  ELSE SelectSeq(events, MatchesFilter)

\* a Less that orders later timestamps first
Less_After(a, b) == b.ts < a.ts

\* core.Events.Less: Timestamp.Before; timestamp 0 stands for the zero
\* time.Time, which is before every real timestamp.
Less(a, b) == a.ts < b.ts

\* sort.Sort on a short slice is an insertion sort driven by Less.
RECURSIVE InsertBack(_, _)
InsertBack(s, e) ==
  IF s = << >> THEN << e >>
  ELSE IF Less(e, s[Len(s)])
    THEN Append(InsertBack(SubSeq(s, 1, Len(s) - 1), e), s[Len(s)])
    ELSE Append(s, e)

RECURSIVE SortEvents(_)
SortEvents(s) ==
  IF s = << >> THEN << >>
  ELSE InsertBack(SortEvents(SubSeq(s, 1, Len(s) - 1)), s[Len(s)])

\* the orders of the elements of g
RECURSIVE Perms(_)
Perms(g) ==
  IF g = << >> THEN { << >> }
  ELSE UNION { { << g[i] >> \o q :
                   q \in Perms(SubSeq(g, 1, i - 1) \o SubSeq(g, i + 1, Len(g))) } :
               i \in DOMAIN g }

\* length of the leading run of s whose elements Less does not tell apart
RECURSIVE TieRun(_)
TieRun(s) ==
  IF Len(s) <= 1 THEN Len(s)
  ELSE IF Less(s[1], s[2]) \/ Less(s[2], s[1]) THEN 1
  ELSE 1 + TieRun(Tail(s))

\* the orders of a sorted slice that Less accepts as sorted
RECURSIVE TieOrders(_)
TieOrders(s) ==
  IF s = << >> THEN { << >> }
  ELSE LET n == TieRun(s)
       IN { g \o r : g \in Perms(SubSeq(s, 1, n)),
                     r \in TieOrders(SubSeq(s, n + 1, Len(s))) }

\* sort.Sort(core.Events(events)): an insertion sort up to 12 elements; a
\* longer slice goes through the quicksort passes, which promise an order
\* that Less accepts and nothing about elements Less does not tell apart.
SortOutcomes(s) ==
  IF Len(s) <= 12 THEN { SortEvents(s) }
  ELSE TieOrders(SortEvents(s))

\* a Write that undoes its batch when an event fails
SinkWrite_Rollback(out, events) ==
  IF \E k \in 1..Len(events) : events[k].bad
    THEN [out |-> out, err |-> "write"]
    ELSE [out |-> out \o events, err |-> "nil"]

\* Writer.Write: events are appended one by one; the first event that cannot
\* be encoded ends the call with an error and leaves the earlier ones.
RECURSIVE GoodPrefix(_)
GoodPrefix(events) ==
  IF events = << >> \/ events[1].bad THEN << >>
  ELSE << events[1] >> \o GoodPrefix(Tail(events))

SinkWrite(out, events) ==
  [out |-> out \o GoodPrefix(events),
   err |-> IF Len(GoodPrefix(events)) < Len(events) THEN "write" ELSE "nil"]

\* an Error that prints the last error instead of the first
ProcessingErrorsError_Last(errors) ==
  IF Len(errors) = 0 THEN << >>
  ELSE IF Len(errors) = 1 THEN << errors[1] >>
  ELSE << Len(errors), errors[Len(errors)] >>

\* ProcessingErrors.Error: the message parts; one error prints as itself,
\* several print the count and the first error.
ProcessingErrorsError(errors) ==
  IF Len(errors) = 0 THEN << >>
  ELSE IF Len(errors) = 1 THEN << errors[1] >>
  ELSE << Len(errors), errors[1] >>

\* ProcessingErrors.Count
ProcessingErrorsCount(errors) == Len(errors)


\* ---------------------------------------------------------------- state
VARIABLES
  input,            \* the run's inputs: path, listing, filter, workers, buffer
  cancelled,        \* the cancel token (ctx.Done is closed)
  pc,               \* position of the goroutine running App.Process
  fbatch,           \* single-file path: the filtered, sorted events
  walkIdx, walkErr, \* filepath.Walk: next listing entry, Walk's result
  filesChan, filesClosed,
  wpc, wfile, wbatch, wsnap,   \* per worker: position, dequeued path, batch,
                               \* loaded progress snapshot
  out,              \* the records the sink holds, in output order
  errs,             \* processingErrors.Errors
  filesProcessed, eventsProcessed, filesSkipped,
  totalEventsProcessed,
  progressChan, listening, received,
  progressClosed,   \* whether close(progressChan) has run
  err,              \* what ProcessPathWithContext returned
  retCancelled,     \* whether the token had fired when the processor returned
  status            \* the ProcessStatus App.Process returned

\* The sort of one parsed file, taken on its own.
VARIABLES
  slice,            \* the events slice, in parser order until it is sorted
  sorted            \* whether sort.Sort has returned

sortVars == << slice, sorted >>

pipelineVars ==
  << input, cancelled, pc, fbatch, walkIdx, walkErr, filesChan,
     filesClosed, wpc, wfile, wbatch, wsnap, out, errs, filesProcessed,
     eventsProcessed, filesSkipped, totalEventsProcessed, progressChan,
     listening, received, progressClosed, err, retCancelled, status >>

\* One sink (JSONL, CSV or SQLite writer), its callers and the front end
\* that closes it, taken on their own.
VARIABLES
  sinkIn,           \* the sink's kind, the front end, each caller's batch
  mu,               \* w.mu: 0 when free, else the caller that holds it
  spc, sidx, sres,  \* per caller: position, next event of its batch, what
                    \* Write returned
  file,             \* what the output file (or database) holds
  wbuf,             \* bytes in the bufio.Writer / rows of the open transaction
  recordCount,      \* w.recordCount (w.count for SQLite)
  proc,             \* the front end: run, returned, closed, exited
  interrupted       \* whether the run's cancel token has fired

sinkVars == << sinkIn, mu, spc, sidx, sres, file, wbuf, recordCount, proc,
               interrupted >>

\* One Parse call of a line-oriented parser, taken on its own.
VARIABLES
  parseIn,          \* the parser and the lines of the file
  lineNum,          \* lines scanned so far
  fieldsSeen,       \* IIS, Zeek: whether a fields directive has been read
  emitted,          \* the events appended so far
  now,              \* the wall clock, as time.Now() reads it
  parseDone         \* whether Parse has returned

parseVars == << parseIn, lineNum, fieldsSeen, emitted, now, parseDone >>

\* One call of a function of the program that works on its arguments only.
VARIABLES
  callArgs,         \* the function and the arguments it is called with
  callResult        \* << >> until it returns, then << the value returned >>

callVars == << callArgs, callResult >>

\* One call of WithRetryConfig or WithRetryContextConfig, taken on its own.
VARIABLES
  retryIn,          \* which of the two, config.MaxAttempts, how fn behaves
  rpc,              \* position in the loop: none, loop, call, wait, done
  attempt,          \* the loop variable
  calls,            \* how often fn has been invoked
  rerr,             \* the local err: what fn returned last
  ctxFired,         \* whether ctx.Done() is closed
  rret              \* what the call returned

retryVars == << retryIn, rpc, attempt, calls, rerr, ctxFired, rret >>

\* The process-wide file-header cache over several processing runs.
VARIABLES
  headers,          \* headerCache.headers: per path the cached lines, 0 if none
  disk,             \* per path the version of the file's first lines on disk
  running,          \* whether a processing run is on
  runNo,            \* processing runs started so far
  peeked            \* what the last getFileHeader call returned

cacheVars == << headers, disk, running, runNo, peeked >>

\* The API server: its handlers, the processing goroutines /start spawns,
\* the progress broadcaster and the callers of Server.Stop.
VARIABLES
  srvConfig,        \* s.config
  isProcessing,     \* s.isProcessing
  cancelFunc,       \* s.cancelFunc: 0 for nil, else the run whose ctx it cancels
  application,      \* s.application: 0 for nil, else the run it was made for
  gpc,              \* per run: position of its processing goroutine
  gctx,             \* per run: whether its ctx is cancelled
  gcfg,             \* per run: the configuration its application was made of
  cleaned,          \* per run: whether Cleanup was called on its application
  srvChan,          \* number of updates in s.progressChan
  shutdownSignal,   \* "open" or "closed"
  broadcaster,      \* whether broadcastProgress is still running
  httpDown,         \* whether httpServer.Shutdown has run
  stopPc,           \* per caller of Server.Stop: idle, close, rest, done
  procState,        \* the process: up, panicked, exited
  resp              \* the last response: the request, its code, s.config before

serverVars ==
  << srvConfig, isProcessing, cancelFunc, application, gpc, gctx, gcfg,
     cleaned, srvChan, shutdownSignal, broadcaster, httpDown, stopPc,
     procState, resp >>

\* The desktop App: StartProcessing, StopProcessing and the goroutines
\* StartProcessing spawns.
VARIABLES
  guiProcessing,    \* a.isProcessing
  guiCancel,        \* a.cancelFunc: 0 for nil, else the start whose ctx it cancels
  guiPc,            \* per start: position of its goroutine
  guiCtx,           \* per start: whether its ctx is cancelled
  guiPending,       \* the StartProcessing call between its unlock and its go statement
  guiRet            \* what the last call returned

guiVars == << guiProcessing, guiCancel, guiPc, guiCtx, guiPending, guiRet >>

\* the groups of the services around the pipeline
lateVars == << retryVars, cacheVars, serverVars, guiVars >>

vars == << pipelineVars, sortVars, sinkVars, parseVars, callVars, lateVars >>

\* what the steps of the pipeline leave alone besides the run's input
otherVars == << sortVars, sinkVars, parseVars, callVars, lateVars >>

NoErr == [kind |-> "nil", n |-> 0]

\* no retry loop is being looked at on its own
RetryIdle ==
  /\ retryIn = [fn |-> "none"]
  /\ rpc = "none"
  /\ attempt = 0
  /\ calls = 0
  /\ rerr = NoErr
  /\ ctxFired = FALSE
  /\ rret = NoErr

HeaderPaths == {"a.log", "b.log"}

\* the header cache is not being looked at on its own
CacheIdle ==
  /\ headers = [p \in HeaderPaths |-> 0]
  /\ disk = [p \in HeaderPaths |-> 0]
  /\ running = FALSE
  /\ runNo = 0
  /\ peeked = << >>

Runs == 1..MaxRuns
StopCallers == {"shutdown", "signal"}

\* no configuration
NoConfig == [format |-> "none", paths |-> FALSE]

\* no API server is being looked at
ServerIdle ==
  /\ srvConfig = NoConfig
  /\ isProcessing = FALSE
  /\ cancelFunc = 0
  /\ application = 0
  /\ gpc = [r \in Runs |-> "none"]
  /\ gctx = [r \in Runs |-> FALSE]
  /\ gcfg = [r \in Runs |-> NoConfig]
  /\ cleaned = [r \in Runs |-> FALSE]
  /\ srvChan = 0
  /\ shutdownSignal = "open"
  /\ broadcaster = FALSE
  /\ httpDown = TRUE
  /\ stopPc = [k \in StopCallers |-> "idle"]
  /\ procState = "none"
  /\ resp = << >>

Starts == 1..MaxStarts

\* no desktop App is being looked at
GuiIdle ==
  /\ guiProcessing = FALSE
  /\ guiCancel = 0
  /\ guiPc = [r \in Starts |-> "idle"]
  /\ guiCtx = [r \in Starts |-> FALSE]
  /\ guiPending = 0
  /\ guiRet = "idle"

LateIdle == RetryIdle /\ CacheIdle /\ ServerIdle /\ GuiIdle

\* no function is being called on its own
CallIdle == callArgs = [fn |-> "none"] /\ callResult = << >>

\* no file is being parsed on its own
ParseIdle ==
  /\ parseIn = [parser |-> "none", lines |-> << >>]
  /\ lineNum = 0
  /\ fieldsSeen = FALSE
  /\ emitted = << >>
  /\ now = 0
  /\ parseDone = TRUE

SinkWriters == {1, 2}

\* no sink is being looked at on its own
SinkIdle ==
  /\ sinkIn = [kind |-> "none", impl |-> "none", frontend |-> "none",
               batch |-> << >>]
  /\ mu = 0
  /\ spc = [w \in SinkWriters |-> "ret"]
  /\ sidx = [w \in SinkWriters |-> 1]
  /\ sres = [w \in SinkWriters |-> "none"]
  /\ file = << >>
  /\ wbuf = << >>
  /\ recordCount = 0
  /\ proc = "none"
  /\ interrupted = FALSE

\* no slice is being sorted on its own
SortIdle == slice = << >> /\ sorted = FALSE

Workers == 1..MaxWorkers

\* A progress update left in a shared channel by an earlier run.
PriorUpdate == [files |-> 1, events |-> 0, run |-> 0]

Inputs ==
  \* a path that cannot be stat'ed
  { [statOK |-> FALSE, isDir |-> FALSE, listing |-> << >>, filter |-> f,
     workers |-> 1, buf |-> 0, prefill |-> 0] : f \in FilterPatterns }
  \cup
  \* a single file; the caller's channel may still hold earlier updates
  { [statOK |-> TRUE, isDir |-> FALSE, listing |-> << c >>, filter |-> f,
     workers |-> 1, buf |-> 0, prefill |-> p] :
       c \in { i \in CatIdx : Catalog[i].kind = "file" },
       f \in FilterPatterns, p \in 0..ProgressCap }
  \cup
  \* a directory
  { [statOK |-> TRUE, isDir |-> TRUE, listing |-> l, filter |-> f,
     workers |-> n, buf |-> b, prefill |-> 0] :
       l \in Listings, f \in FilterPatterns, n \in 1..MaxWorkers,
       b \in {0, MaxBuf} }

PipelineInit(in) ==
  /\ input = in
  /\ cancelled = FALSE
  /\ pc = "start"
  /\ fbatch = << >>
  /\ walkIdx = 1
  /\ walkErr = "nil"
  /\ filesChan = << >>
  /\ filesClosed = FALSE
  /\ wpc = [w \in Workers |-> "idle"]
  /\ wfile = [w \in Workers |-> 0]
  /\ wbatch = [w \in Workers |-> << >>]
  /\ wsnap = [w \in Workers |-> [files |-> 0, events |-> 0]]
  /\ out = << >>
  /\ errs = << >>
  /\ filesProcessed = 0
  /\ eventsProcessed = 0
  /\ filesSkipped = 0
  /\ totalEventsProcessed = 0
  /\ progressChan = [k \in 1..input.prefill |-> PriorUpdate]
  /\ listening = TRUE
  /\ received = << >>
  /\ progressClosed = FALSE
  /\ err = "none"
  /\ retCancelled = FALSE
  /\ status = [status |-> "none", parsed_events |-> 0, error |-> "none"]

Init ==
  /\ \E in \in Inputs : PipelineInit(in)
  /\ SortIdle
  /\ SinkIdle
  /\ ParseIdle
  /\ CallIdle
  /\ LateIdle

\* queue capacity: bufferSize, or the default when it is not positive
QueueCap == IF input.buf <= 0 THEN DefaultBufferSize ELSE input.buf

\* the processor returns e to App.Process
Return(e) ==
  /\ err' = e
  /\ retCancelled' = cancelled
  /\ pc' = "returned"

\* The cancel token fires (any time before App.Process has returned).
Cancel ==
  /\ ~cancelled
  /\ pc # "done"
  /\ cancelled' = TRUE
  /\ UNCHANGED otherVars
  /\ UNCHANGED << input, pc, fbatch, walkIdx, walkErr, filesChan, filesClosed,
                  wpc, wfile, wbatch, wsnap, out, errs, filesProcessed,
                  eventsProcessed, filesSkipped, totalEventsProcessed,
                  progressChan, listening, received, progressClosed, err,
                  retCancelled, status >>

\* the entry checks without the compilation of the filter pattern
EntryError_NoCompile ==
  IF ~input.statOK THEN "stat" ELSE "nil"

\* ProcessPathWithContext's entry checks: os.Stat, then regexp.Compile.
EntryError ==
  IF ~input.statOK THEN "stat"
  ELSE IF input.filter = "invalid" THEN "filter"
  ELSE "nil"

\* ProcessPathWithContext: stat, compile the filter, pick the path; the
\* directory path creates the queue and starts the workers.
ProcessPathWithContext ==
  /\ pc = "start"
  /\ IF EntryError # "nil" THEN Return(EntryError) /\ UNCHANGED wpc
     ELSE IF ~input.isDir
       THEN pc' = "f_check" /\ UNCHANGED << err, retCancelled, wpc >>
     ELSE /\ pc' = "walk_check"
          /\ wpc' = [w \in Workers |->
                       IF w <= input.workers THEN "select" ELSE "idle"]
          /\ UNCHANGED << err, retCancelled >>
  /\ UNCHANGED otherVars
  /\ UNCHANGED << input, cancelled, fbatch, walkIdx, walkErr, filesChan,
                  filesClosed, wfile, wbatch, wsnap, out, errs,
                  filesProcessed, eventsProcessed, filesSkipped,
                  totalEventsProcessed, progressChan, listening, received,
                  progressClosed, status >>


\* ------------------------------------------------------- single-file path
workerVars == << wpc, wfile, wbatch, wsnap >>
walkVars == << walkIdx, walkErr, filesChan, filesClosed >>
dirCounters == << filesProcessed, eventsProcessed, filesSkipped >>
listenerVars == << listening, received, progressClosed >>

\* processFileWithContext, the entry check of the cancel token.
FileCheckCancel ==
  /\ pc = "f_check"
  /\ IF cancelled THEN Return("canceled")
     ELSE pc' = "f_parse" /\ UNCHANGED << err, retCancelled >>
  /\ UNCHANGED otherVars
  /\ UNCHANGED << input, cancelled, fbatch, walkVars, workerVars, out, errs,
                  dirCounters, totalEventsProcessed, progressChan,
                  listenerVars, status >>

\* what a goroutine holds once file c is parsed, filtered by the pattern and
\* sorted
ParseFilterSortWith(pattern, c) ==
  LET g == GetParserForFile(c)
      r == ParseFile(g.parser, c)
  IN IF g.err # "nil" THEN [events |-> << >>, err |-> g.err, stage |-> "parser"]
     ELSE IF r.err # "nil" THEN [events |-> << >>, err |-> r.err, stage |-> "parse"]
     ELSE [events |-> SortEvents(ApplyFilter(pattern, r.events)),
           err |-> "nil", stage |-> "nil"]

\* the same for every pattern and file, worked out once
ParsedCatalog ==
  [pattern \in FilterPatterns |-> [c \in CatIdx |-> ParseFilterSortWith(pattern, c)]]

\* what a goroutine of this run holds once file c is parsed, filtered and
\* sorted
ParseFilterSort(c) == ParsedCatalog[input.filter][c]

\* processFileWithContext: get the parser, parse, filter, sort.
FileParse ==
  /\ pc = "f_parse"
  /\ LET r == ParseFilterSort(input.listing[1])
     IN IF r.err # "nil"
          THEN Return(r.stage) /\ UNCHANGED fbatch
          ELSE /\ fbatch' = r.events
               /\ pc' = "f_write"
               /\ UNCHANGED << err, retCancelled >>
  /\ UNCHANGED otherVars
  /\ UNCHANGED << input, cancelled, walkVars, workerVars, out, errs,
                  dirCounters, totalEventsProcessed, progressChan,
                  listenerVars, status >>

\* processFileWithContext: hand the batch to the sink.
FileWrite ==
  /\ pc = "f_write"
  /\ LET r == SinkWrite(out, fbatch)
     IN /\ out' = r.out
        /\ IF r.err # "nil" THEN Return("write")
           ELSE pc' = "f_add" /\ UNCHANGED << err, retCancelled >>
  /\ UNCHANGED otherVars
  /\ UNCHANGED << input, cancelled, fbatch, walkVars, workerVars, errs,
                  dirCounters, totalEventsProcessed, progressChan,
                  listenerVars, status >>

\* processFileWithContext: atomic.AddInt64(&p.totalEventsProcessed, ...).
FileAddTotal ==
  /\ pc = "f_add"
  /\ totalEventsProcessed' = totalEventsProcessed + Len(fbatch)
  /\ pc' = "f_send"
  /\ UNCHANGED otherVars
  /\ UNCHANGED << input, cancelled, fbatch, walkVars, workerVars, out, errs,
                  dirCounters, progressChan, listenerVars, err, retCancelled,
                  status >>

\* processFileWithContext: progressChan <- Progress{1, len(events)}, a plain
\* channel send, which waits for room in the channel.
FileSendProgress ==
  /\ pc = "f_send"
  /\ Len(progressChan) < ProgressCap
  /\ progressChan' = Append(progressChan,
                        [files |-> 1, events |-> Len(fbatch), run |-> 1])
  /\ Return("nil")
  /\ UNCHANGED otherVars
  /\ UNCHANGED << input, cancelled, fbatch, walkVars, workerVars, out, errs,
                  dirCounters, totalEventsProcessed, listenerVars, status >>

\* ------------------------------------------------------- directory walker
\* The Walk callback's first select: stop on a fired token, skip directories.
WalkCheck ==
  /\ pc = "walk_check"
  /\ IF walkIdx > Len(input.listing)
       THEN pc' = "close" /\ UNCHANGED << walkIdx, walkErr >>
     ELSE IF cancelled
       THEN pc' = "close" /\ walkErr' = "canceled" /\ UNCHANGED walkIdx
     ELSE IF Catalog[input.listing[walkIdx]].kind = "dir"
       THEN walkIdx' = walkIdx + 1 /\ UNCHANGED << pc, walkErr >>
     ELSE pc' = "walk_send" /\ UNCHANGED << walkIdx, walkErr >>
  /\ UNCHANGED otherVars
  /\ UNCHANGED << input, cancelled, fbatch, filesChan, filesClosed,
                  workerVars, out, errs, dirCounters, totalEventsProcessed,
                  progressChan, listenerVars, err, retCancelled, status >>

\* an enqueue that does not look at the token
WalkSend_NoToken ==
  /\ pc = "walk_send"
  /\ Len(filesChan) < QueueCap
  /\ filesChan' = Append(filesChan, input.listing[walkIdx])
  /\ walkIdx' = walkIdx + 1
  /\ pc' = "walk_check"
  /\ UNCHANGED otherVars
  /\ UNCHANGED << input, cancelled, fbatch, walkErr, filesClosed, workerVars,
                  out, errs, dirCounters, totalEventsProcessed, progressChan,
                  listenerVars, err, retCancelled, status >>

\* The Walk callback's second select: enqueue the path or see the token.
WalkSend ==
  /\ pc = "walk_send"
  /\ \/ /\ Len(filesChan) < QueueCap
        /\ filesChan' = Append(filesChan, input.listing[walkIdx])
        /\ walkIdx' = walkIdx + 1
        /\ pc' = "walk_check"
        /\ UNCHANGED walkErr
     \/ /\ cancelled
        /\ walkErr' = "canceled"
        /\ pc' = "close"
        /\ UNCHANGED << filesChan, walkIdx >>
  /\ UNCHANGED otherVars
  /\ UNCHANGED << input, cancelled, fbatch, filesClosed, workerVars, out,
                  errs, dirCounters, totalEventsProcessed, progressChan,
                  listenerVars, err, retCancelled, status >>

\* the walk ends and the queue is left open
CloseFilesChan_LeftOpen ==
  /\ pc = "close"
  /\ pc' = "wait"
  /\ UNCHANGED otherVars
  /\ UNCHANGED << input, cancelled, fbatch, walkIdx, walkErr, filesChan,
                  filesClosed, workerVars, out, errs, dirCounters,
                  totalEventsProcessed, progressChan, listenerVars, err,
                  retCancelled, status >>

\* close(filesChan)
CloseFilesChan ==
  /\ pc = "close"
  /\ filesClosed' = TRUE
  /\ pc' = "wait"
  /\ UNCHANGED otherVars
  /\ UNCHANGED << input, cancelled, fbatch, walkIdx, walkErr, filesChan,
                  workerVars, out, errs, dirCounters, totalEventsProcessed,
                  progressChan, listenerVars, err, retCancelled, status >>

\* the return rules with the error list consulted before the token
DirectoryResult_ErrorsFirst(wErr, ctxDone, errors) ==
  IF wErr # "nil" /\ wErr # "canceled" THEN "walk"
  ELSE IF Len(errors) > 0 THEN "errors"
  ELSE IF ctxDone THEN "canceled"
  ELSE "nil"

\* the result processDirectoryWithContext picks once wg.Wait has returned
DirectoryResult(wErr, ctxDone, errors) ==
  IF wErr # "nil" /\ wErr # "canceled" THEN "walk"
  ELSE IF ctxDone THEN "canceled"
  ELSE IF Len(errors) > 0 THEN "errors"
  ELSE "nil"

\* the return rules applied without waiting for the workers
WaitAndReturn_NoWait ==
  /\ pc = "wait"
  /\ Return(DirectoryResult(walkErr, cancelled, errs))
  /\ UNCHANGED otherVars
  /\ UNCHANGED << input, cancelled, fbatch, walkVars, workerVars, out, errs,
                  dirCounters, totalEventsProcessed, progressChan,
                  listenerVars, status >>

\* wg.Wait returns when every worker has exited; then the return rules.
WaitAndReturn ==
  /\ pc = "wait"
  /\ \A w \in Workers : wpc[w] \in {"idle", "exited"}
  /\ Return(DirectoryResult(walkErr, cancelled, errs))
  /\ UNCHANGED otherVars
  /\ UNCHANGED << input, cancelled, fbatch, walkVars, workerVars, out, errs,
                  dirCounters, totalEventsProcessed, progressChan,
                  listenerVars, status >>


\* ---------------------------------------------------------------- workers
mainVars == << pc, fbatch, err, retCancelled, status >>

\* The worker's select: the token, a queued path, or the closed queue.
WorkerSelect(w) ==
  /\ wpc[w] = "select"
  /\ \/ /\ cancelled
        /\ wpc' = [wpc EXCEPT ![w] = "exited"]
        /\ UNCHANGED << filesChan, wfile >>
     \/ /\ filesChan # << >>
        /\ wfile' = [wfile EXCEPT ![w] = Head(filesChan)]
        /\ filesChan' = Tail(filesChan)
        /\ wpc' = [wpc EXCEPT ![w] = "parse"]
     \/ /\ filesChan = << >>
        /\ filesClosed
        /\ wpc' = [wpc EXCEPT ![w] = "exited"]
        /\ UNCHANGED << filesChan, wfile >>
  /\ UNCHANGED otherVars
  /\ UNCHANGED << input, cancelled, mainVars, walkIdx, walkErr, filesClosed,
                  wbatch, wsnap, out, errs, dirCounters,
                  totalEventsProcessed, progressChan, listenerVars >>

\* The loop body ends (continue, or its last statement): the iteration's
\* locals are gone and the worker is back at its select.
NextIteration(w) ==
  /\ wpc' = [wpc EXCEPT ![w] = "select"]
  /\ wfile' = [wfile EXCEPT ![w] = 0]
  /\ wbatch' = [wbatch EXCEPT ![w] = << >>]
  /\ wsnap' = [wsnap EXCEPT ![w] = [files |-> 0, events |-> 0]]

\* The worker's `return` (leaves the loop; the deferred wg.Done runs).
ContinueAfterError_Return(w) ==
  /\ wpc' = [wpc EXCEPT ![w] = "exited"]
  /\ wfile' = [wfile EXCEPT ![w] = 0]
  /\ wbatch' = [wbatch EXCEPT ![w] = << >>]
  /\ wsnap' = [wsnap EXCEPT ![w] = [files |-> 0, events |-> 0]]

\* the `continue` after an error was added to the list
ContinueAfterError(w) == NextIteration(w)

\* what the worker does with a file that did not yield a batch
OnFileError(r) ==
  IF r.stage = "parser" /\ r.err = "ErrUnsupportedFormat" THEN "skip"
  ELSE "collect"

\* The worker gets the parser, parses, filters and sorts; a failure is
\* skipped or added to the error list and the worker takes the next path.
WorkerParse(w) ==
  /\ wpc[w] = "parse"
  /\ LET r == ParseFilterSort(wfile[w])
     IN IF r.err = "nil"
          THEN /\ wbatch' = [wbatch EXCEPT ![w] = r.events]
               /\ wpc' = [wpc EXCEPT ![w] = "write"]
               /\ UNCHANGED << errs, filesSkipped, wfile, wsnap >>
        ELSE IF OnFileError(r) = "skip"
          THEN /\ filesSkipped' = filesSkipped + 1
               /\ NextIteration(w)
               /\ UNCHANGED errs
        ELSE /\ errs' = Append(errs, [file |-> wfile[w], stage |-> r.stage,
                                      cause |-> r.err])
             /\ ContinueAfterError(w)
             /\ UNCHANGED filesSkipped
  /\ UNCHANGED otherVars
  /\ UNCHANGED << input, cancelled, mainVars, walkVars, out,
                  filesProcessed, eventsProcessed, totalEventsProcessed,
                  progressChan, listenerVars >>

\* p.writer.Write(events), one call under the sink's mutex.
WorkerWrite(w) ==
  /\ wpc[w] = "write"
  /\ LET r == SinkWrite(out, wbatch[w])
     IN /\ out' = r.out
        /\ wpc' = [wpc EXCEPT ![w] = IF r.err # "nil" THEN "adderr"
                                      ELSE "addfiles"]
  /\ UNCHANGED otherVars
  /\ UNCHANGED << input, cancelled, mainVars, walkVars, wfile, wbatch, wsnap,
                  errs, dirCounters, totalEventsProcessed, progressChan,
                  listenerVars >>

\* a worker that counts the events of a batch whose Write failed
WorkerAddWriteError_Counted(w) ==
  /\ wpc[w] = "adderr"
  /\ errs' = Append(errs, [file |-> wfile[w], stage |-> "write",
                           cause |-> "write"])
  /\ totalEventsProcessed' = totalEventsProcessed + Len(wbatch[w])
  /\ ContinueAfterError(w)
  /\ UNCHANGED otherVars
  /\ UNCHANGED << input, cancelled, mainVars, walkVars, out, dirCounters,
                  progressChan, listenerVars >>

\* processingErrors.Add after a failed Write.
WorkerAddWriteError(w) ==
  /\ wpc[w] = "adderr"
  /\ errs' = Append(errs, [file |-> wfile[w], stage |-> "write",
                           cause |-> "write"])
  /\ ContinueAfterError(w)
  /\ UNCHANGED otherVars
  /\ UNCHANGED << input, cancelled, mainVars, walkVars, out, dirCounters,
                  totalEventsProcessed, progressChan, listenerVars >>

\* atomic.AddInt64(&filesProcessed, 1)
WorkerAddFiles(w) ==
  /\ wpc[w] = "addfiles"
  /\ filesProcessed' = filesProcessed + 1
  /\ wpc' = [wpc EXCEPT ![w] = "addevents"]
  /\ UNCHANGED otherVars
  /\ UNCHANGED << input, cancelled, mainVars, walkVars, wfile, wbatch, wsnap,
                  out, errs, eventsProcessed, filesSkipped,
                  totalEventsProcessed, progressChan, listenerVars >>

\* atomic.AddInt64(&eventsProcessed, len(events))
WorkerAddEvents(w) ==
  /\ wpc[w] = "addevents"
  /\ eventsProcessed' = eventsProcessed + Len(wbatch[w])
  /\ wpc' = [wpc EXCEPT ![w] = "addtotal"]
  /\ UNCHANGED otherVars
  /\ UNCHANGED << input, cancelled, mainVars, walkVars, wfile, wbatch, wsnap,
                  out, errs, filesProcessed, filesSkipped,
                  totalEventsProcessed, progressChan, listenerVars >>

\* atomic.AddInt64(&p.totalEventsProcessed, len(events))
WorkerAddTotal(w) ==
  /\ wpc[w] = "addtotal"
  /\ totalEventsProcessed' = totalEventsProcessed + Len(wbatch[w])
  /\ wpc' = [wpc EXCEPT ![w] = "loadfiles"]
  /\ UNCHANGED otherVars
  /\ UNCHANGED << input, cancelled, mainVars, walkVars, wfile, wbatch, wsnap,
                  out, errs, dirCounters, progressChan, listenerVars >>

\* the select's send operand: atomic.LoadInt64(&filesProcessed)
WorkerLoadFiles(w) ==
  /\ wpc[w] = "loadfiles"
  /\ wsnap' = [wsnap EXCEPT ![w].files = filesProcessed]
  /\ wpc' = [wpc EXCEPT ![w] = "loadevents"]
  /\ UNCHANGED otherVars
  /\ UNCHANGED << input, cancelled, mainVars, walkVars, wfile, wbatch, out,
                  errs, dirCounters, totalEventsProcessed, progressChan,
                  listenerVars >>

\* the select's send operand: atomic.LoadInt64(&eventsProcessed)
WorkerLoadEvents(w) ==
  /\ wpc[w] = "loadevents"
  /\ wsnap' = [wsnap EXCEPT ![w].events = eventsProcessed]
  /\ wpc' = [wpc EXCEPT ![w] = "send"]
  /\ UNCHANGED otherVars
  /\ UNCHANGED << input, cancelled, mainVars, walkVars, wfile, wbatch, out,
                  errs, dirCounters, totalEventsProcessed, progressChan,
                  listenerVars >>

\* select { case progressChan <- snapshot: default: }: send when the channel
\* has room, drop the update otherwise.
WorkerSendProgress(w) ==
  /\ wpc[w] = "send"
  /\ progressChan' =
       IF Len(progressChan) < ProgressCap
         THEN Append(progressChan, [files |-> wsnap[w].files,
                                    events |-> wsnap[w].events, run |-> 1])
         ELSE progressChan
  /\ NextIteration(w)
  /\ UNCHANGED otherVars
  /\ UNCHANGED << input, cancelled, mainVars, walkVars, out, errs,
                  dirCounters, totalEventsProcessed, listenerVars >>

\* --------------------------------------------------------------- listener
\* App.Process's relay goroutine takes one update off the channel.
ListenerReceive ==
  /\ listening
  /\ progressChan # << >>
  /\ received' = Append(received, Head(progressChan))
  /\ progressChan' = Tail(progressChan)
  /\ UNCHANGED otherVars
  /\ UNCHANGED << input, cancelled, mainVars, walkVars, workerVars, out, errs,
                  dirCounters, totalEventsProcessed, listening,
                  progressClosed >>

\* The relay goroutine returns on ctx.Done, or when the channel is closed
\* and drained.
ListenerStop ==
  /\ listening
  /\ cancelled \/ (progressClosed /\ progressChan = << >>)
  /\ listening' = FALSE
  /\ UNCHANGED otherVars
  /\ UNCHANGED << input, cancelled, mainVars, walkVars, workerVars, out, errs,
                  dirCounters, totalEventsProcessed, progressChan, received,
                  progressClosed >>

\* ------------------------------------------------------------ App.Process
\* the status App.Process builds from the processor's result
StatusOf(e, ctxCanceled) ==
  IF e # "nil"
    THEN IF ctxCanceled THEN "interrupted" ELSE "error"
    ELSE "success"

\* App.Process after ProcessPathWithContext has returned: the status is
\* built, and on the way out the deferred close(progressChan) runs (the GUI
\* run closes the channel right after the processor's return).
AppStatus ==
  /\ pc = "returned"
  /\ progressClosed' = TRUE
  /\ status' = [status |-> StatusOf(err, cancelled),
                parsed_events |-> totalEventsProcessed,
                error |-> IF err = "nil" THEN << >>
                          ELSE IF cancelled THEN << "interrupted" >>
                          ELSE IF err = "errors" THEN ProcessingErrorsError(errs)
                          ELSE << err >>]
  /\ pc' = "done"
  /\ UNCHANGED otherVars
  /\ UNCHANGED << input, cancelled, fbatch, err, retCancelled, walkVars,
                  workerVars, out, errs, dirCounters, totalEventsProcessed,
                  progressChan, listening, received >>

Next ==
  \/ Cancel
  \/ ProcessPathWithContext
  \/ FileCheckCancel
  \/ FileParse
  \/ FileWrite
  \/ FileAddTotal
  \/ FileSendProgress
  \/ WalkCheck
  \/ WalkSend
  \/ CloseFilesChan
  \/ WaitAndReturn
  \/ \E w \in Workers :
       \/ WorkerSelect(w)
       \/ WorkerParse(w)
       \/ WorkerWrite(w)
       \/ WorkerAddWriteError(w)
       \/ WorkerAddFiles(w)
       \/ WorkerAddEvents(w)
       \/ WorkerAddTotal(w)
       \/ WorkerLoadFiles(w)
       \/ WorkerLoadEvents(w)
       \/ WorkerSendProgress(w)
  \/ ListenerReceive
  \/ ListenerStop
  \/ AppStatus

Spec == Init /\ [][Next]_vars

\* The steps of the goroutine that runs ProcessPathWithContext on a directory
\* and then App.Process's last lines, and the steps of worker goroutine w.
MainStep ==
  \/ ProcessPathWithContext
  \/ WalkCheck
  \/ WalkSend
  \/ CloseFilesChan
  \/ WaitAndReturn
  \/ AppStatus

WorkerStep(w) ==
  \/ WorkerSelect(w)
  \/ WorkerParse(w)
  \/ WorkerWrite(w)
  \/ WorkerAddWriteError(w)
  \/ WorkerAddFiles(w)
  \/ WorkerAddEvents(w)
  \/ WorkerAddTotal(w)
  \/ WorkerLoadFiles(w)
  \/ WorkerLoadEvents(w)
  \/ WorkerSendProgress(w)

\* Directory runs for the question whether a run ends: full listings of a
\* directory, an unreadable file, a file that is written and a file with a
\* record the sink refuses, no filter.
LiveInputs ==
  { [statOK |-> TRUE, isDir |-> TRUE, listing |-> l, filter |-> "",
     workers |-> n, buf |-> b, prefill |-> 0] :
       l \in { s \in Listings : Len(s) = MaxFiles /\ \A i \in 1..Len(s) : s[i] \in {1, 4, 5, 6} },
       n \in 1..MaxWorkers, b \in {0, MaxBuf} }

LiveInit ==
  /\ \E in \in LiveInputs : PipelineInit(in)
  /\ SortIdle
  /\ SinkIdle
  /\ ParseIdle
  /\ CallIdle
  /\ LateIdle

LiveNext ==
  \/ Cancel
  \/ ProcessPathWithContext
  \/ WalkCheck
  \/ WalkSend
  \/ CloseFilesChan
  \/ WaitAndReturn
  \/ \E w \in Workers :
       \/ WorkerSelect(w)
       \/ WorkerParse(w)
       \/ WorkerWrite(w)
       \/ WorkerAddWriteError(w)
       \/ WorkerAddFiles(w)
       \/ WorkerAddEvents(w)
       \/ WorkerAddTotal(w)
       \/ WorkerLoadFiles(w)
       \/ WorkerLoadEvents(w)
       \/ WorkerSendProgress(w)
  \/ ListenerReceive
  \/ ListenerStop
  \/ AppStatus

\* The Go scheduler runs every goroutine that is able to take a step.
LiveSpec ==
  /\ LiveInit
  /\ [][LiveNext]_vars
  /\ WF_vars(MainStep)
  /\ \A w \in Workers : WF_vars(WorkerStep(w))


\* ============================================================ sort.Sort
\* The input of a run that never starts: the state of the pipeline while
\* another part of the program is looked at on its own.
NoRun == [statOK |-> FALSE, isDir |-> FALSE, listing |-> << >>, filter |-> "",
          workers |-> 1, buf |-> 0, prefill |-> 0]

PipelineIdle == PipelineInit(NoRun)

\* Parsed files of up to MaxSortLen events, in parser order (id), whose
\* timestamps repeat with period p and run against the parser order.
SortInputs ==
  { [i \in 1..n |-> [id |-> i, ts |-> (n - i) % p]] :
      n \in 0..MaxSortLen, p \in {5, 7} }

SortInit ==
  /\ PipelineIdle
  /\ SinkIdle
  /\ ParseIdle
  /\ CallIdle
  /\ LateIdle
  /\ slice \in SortInputs
  /\ sorted = FALSE

\* sort.Sort(core.Events(events)) sorts the slice in place.
SortSlice ==
  /\ ~sorted
  /\ slice' \in SortOutcomes(slice)
  /\ sorted' = TRUE
  /\ UNCHANGED << pipelineVars, sinkVars, parseVars, callVars, lateVars >>

SortNext == SortSlice

SortSpec == SortInit /\ [][SortNext]_vars


\* ================================================================ sinks
\* The bytes (rows, for SQLite) one event becomes in the output: part k of
\* `of` parts of the record of event e.
Encode(kind, e) ==
  IF kind = "sqlite" THEN << [ev |-> e, part |-> 1, of |-> 1] >>
  ELSE [k \in 1..RecLen |-> [ev |-> e, part |-> k, of |-> RecLen]]

\* the header row NewCSVWriter writes and flushes
Header == [w |-> 0, k |-> 0, bad |-> FALSE]

\* bufio.Writer.Write: bytes that do not fit fill the buffer, which is then
\* written out whole; a write to an empty buffer that is larger than the
\* buffer goes to the file directly.
RECURSIVE BufioWrite(_, _, _)
BufioWrite(f, b, p) ==
  IF Len(p) > BufSize - Len(b)
    THEN IF b = << >> THEN [file |-> f \o p, wbuf |-> << >>]
         ELSE LET n == BufSize - Len(b)
              IN BufioWrite(f \o b \o SubSeq(p, 1, n), << >>,
                            SubSeq(p, n + 1, Len(p)))
    ELSE [file |-> f, wbuf |-> b \o p]

\* whether the sink rejects the event: json.Encoder.Encode and the INSERT
\* can fail on an event, csv.Writer.Write only on the underlying writer
EncodeFails(kind, e) == e.bad /\ kind \in {"jsonl", "sqlite"}

\* The repository holds two copies of the SQLite writer: output/sqlite.go
\* and the earlier one in unnamed/part_011. NewSQLiteWriter sets batchSize
\* to 10000 in the first and to 1000 in the second (scaled: FlushEvery and
\* one below it).
BatchSize ==
  IF sinkIn.impl = "part_011" THEN FlushEvery - 1 ELSE FlushEvery

\* the entry of idx_events_timestamp in the database file
IndexEntry == [ev |-> Header, part |-> 1, of |-> 1]

\* what NewSQLiteWriter leaves in a fresh database file: part_011 executes
\* CREATE INDEX right after CREATE TABLE, output/sqlite.go defers it
NewSQLiteWriter ==
  IF sinkIn.impl = "part_011" THEN << IndexEntry >> ELSE << >>

\* the end of SQLiteWriter.Close in output/sqlite.go, after the final
\* commit: CREATE INDEX IF NOT EXISTS. Close in part_011 has no such step.
CreateIndex(f) ==
  IF sinkIn.kind = "sqlite" /\ sinkIn.impl = "output"
       /\ \A i \in DOMAIN f : f[i] # IndexEntry
    THEN Append(f, IndexEntry)
    ELSE f

\* One iteration of Write's loop for an event the sink takes: the record goes
\* to the buffer (the row to the open transaction), the count goes up, and
\* every FlushEvery records the buffer is flushed (the transaction committed
\* and the count reset).
WriteOne(kind, f, b, count, e) ==
  IF kind = "sqlite"
    THEN IF count + 1 >= BatchSize
           THEN [file |-> f \o b \o Encode(kind, e), wbuf |-> << >>, count |-> 0]
           ELSE [file |-> f, wbuf |-> b \o Encode(kind, e), count |-> count + 1]
    ELSE LET r == BufioWrite(f, b, Encode(kind, e))
         IN IF (count + 1) % FlushEvery = 0
              THEN [file |-> r.file \o r.wbuf, wbuf |-> << >>, count |-> count + 1]
              ELSE [file |-> r.file, wbuf |-> r.wbuf, count |-> count + 1]

\* a Close that closes the file without flushing or committing
CloseSink_NoFlush(f, b) == f

\* Close: flush the buffer (commit the open transaction), close the file.
CloseSink(f, b) == f \o b

\* Batches: up to MaxBatch events of caller w, at most one of which the sink
\* rejects.
SinkBatch(w, n, badAt) ==
  [k \in 1..n |-> [w |-> w, k |-> k, bad |-> (k = badAt)]]

SinkBatches(w) ==
  { SinkBatch(w, n, badAt) : n \in 0..MaxBatch, badAt \in 0..MaxBatch }

SinkInputs ==
  { [kind |-> ki[1], impl |-> ki[2], frontend |-> fe, batch |-> bt] :
      ki \in { << "jsonl", "output" >>, << "csv", "output" >>,
               << "sqlite", "output" >>, << "sqlite", "part_011" >> },
      fe \in {"cli", "gui"},
      bt \in { q \in [SinkWriters -> UNION { SinkBatches(w) : w \in SinkWriters }] :
                 \A w \in SinkWriters : q[w] \in SinkBatches(w) } }

SinkInit ==
  /\ PipelineIdle
  /\ SortIdle
  /\ ParseIdle
  /\ CallIdle
  /\ LateIdle
  /\ sinkIn \in SinkInputs
  /\ mu = 0
  /\ spc = [w \in SinkWriters |-> "idle"]
  /\ sidx = [w \in SinkWriters |-> 1]
  /\ sres = [w \in SinkWriters |-> "none"]
  /\ file = IF sinkIn.kind = "csv" THEN Encode("csv", Header)
            ELSE IF sinkIn.kind = "sqlite" THEN NewSQLiteWriter
            ELSE << >>
  /\ wbuf = << >>
  /\ recordCount = 0
  /\ proc = "run"
  /\ interrupted = FALSE

sinkRest == << pipelineVars, sortVars, parseVars, callVars, lateVars, sinkIn >>

\* The cancel token fires while the run is on.
Interrupt ==
  /\ proc = "run"
  /\ ~interrupted
  /\ interrupted' = TRUE
  /\ UNCHANGED << sinkRest, mu, spc, sidx, sres, file, wbuf, recordCount, proc >>

\* A worker that finds the token fired at its select never calls Write.
WriterStops(w) ==
  /\ spc[w] = "idle"
  /\ interrupted
  /\ spc' = [spc EXCEPT ![w] = "ret"]
  /\ UNCHANGED << sinkRest, mu, sidx, sres, file, wbuf, recordCount, proc,
                  interrupted >>

\* A worker calls Write with its batch and arrives at w.mu.Lock().
SinkCall(w) ==
  /\ spc[w] = "idle"
  /\ spc' = [spc EXCEPT ![w] = "lock"]
  /\ UNCHANGED << sinkRest, mu, sidx, sres, file, wbuf, recordCount, proc,
                  interrupted >>

\* what Write does once it is past w.mu.Lock(): an empty batch returns nil
AfterLock(w) ==
  IF sinkIn.batch[w] = << >>
    THEN /\ spc' = [spc EXCEPT ![w] = "ret"]
         /\ sres' = [sres EXCEPT ![w] = "nil"]
         /\ UNCHANGED mu
    ELSE /\ spc' = [spc EXCEPT ![w] = "loop"]
         /\ mu' = w
         /\ UNCHANGED sres

\* a Lock that does not wait for the holder
SinkLock_NoWait(w) ==
  /\ spc[w] = "lock"
  /\ AfterLock(w)
  /\ UNCHANGED << sinkRest, sidx, file, wbuf, recordCount, proc, interrupted >>

\* w.mu.Lock() returns when the mutex is free.
SinkLock(w) ==
  /\ spc[w] = "lock"
  /\ mu = 0
  /\ AfterLock(w)
  /\ UNCHANGED << sinkRest, sidx, file, wbuf, recordCount, proc, interrupted >>

\* One iteration of Write's loop; an event the sink rejects ends the call
\* with an error, the last event ends it with nil, and the deferred Unlock
\* frees the mutex.
SinkWriteEvent(w) ==
  /\ spc[w] = "loop"
  /\ LET e == sinkIn.batch[w][sidx[w]]
         r == WriteOne(sinkIn.kind, file, wbuf, recordCount, e)
     IN IF EncodeFails(sinkIn.kind, e)
          THEN /\ spc' = [spc EXCEPT ![w] = "ret"]
               /\ sres' = [sres EXCEPT ![w] = "error"]
               /\ mu' = 0
               /\ UNCHANGED << sidx, file, wbuf, recordCount >>
          ELSE /\ file' = r.file
               /\ wbuf' = r.wbuf
               /\ recordCount' = r.count
               /\ IF sidx[w] = Len(sinkIn.batch[w])
                    THEN /\ spc' = [spc EXCEPT ![w] = "ret"]
                         /\ sres' = [sres EXCEPT ![w] = "nil"]
                         /\ mu' = 0
                         /\ UNCHANGED sidx
                    ELSE /\ sidx' = [sidx EXCEPT ![w] = sidx[w] + 1]
                         /\ UNCHANGED << spc, sres, mu >>
  /\ UNCHANGED << sinkRest, proc, interrupted >>

\* what the processor returns to the front end once every worker is done
RunErr ==
  IF interrupted THEN "canceled"
  ELSE IF \E w \in SinkWriters : sres[w] = "error" THEN "errors"
  ELSE "nil"

\* wg.Wait returns; Process returns to the front end.
ProcessReturns ==
  /\ proc = "run"
  /\ \A w \in SinkWriters : spc[w] = "ret"
  /\ proc' = "returned"
  /\ UNCHANGED << sinkRest, mu, spc, sidx, sres, file, wbuf, recordCount,
                  interrupted >>

\* The front end closes the sink: the GUI run by its deferred writer.Close(),
\* the CLI by application.Cleanup() when Process returned no error.
Cleanup ==
  /\ proc = "returned"
  /\ sinkIn.frontend = "gui" \/ RunErr = "nil"
  /\ mu = 0
  /\ file' = CreateIndex(CloseSink(file, wbuf))
  /\ wbuf' = << >>
  /\ proc' = "closed"
  /\ UNCHANGED << sinkRest, mu, spc, sidx, sres, recordCount, interrupted >>

\* The CLI leaves by os.Exit(1) when Process returned an error: Cleanup is
\* not reached and what the sink still buffers is gone.
ExitWithoutCleanup ==
  /\ proc = "returned"
  /\ sinkIn.frontend = "cli"
  /\ RunErr # "nil"
  /\ wbuf' = << >>
  /\ proc' = "exited"
  /\ UNCHANGED << sinkRest, mu, spc, sidx, sres, file, recordCount,
                  interrupted >>

SinkNext ==
  \/ Interrupt
  \/ \E w \in SinkWriters :
       \/ WriterStops(w)
       \/ SinkCall(w)
       \/ SinkLock(w)
       \/ SinkWriteEvent(w)
  \/ ProcessReturns
  \/ Cleanup
  \/ ExitWithoutCleanup

SinkSpec == SinkInit /\ [][SinkNext]_vars


\* ============================================================== parsers
\* The timestamps log records carry; the wall clock is past all of them.
LogTimes == {1, 2}

\* A line as the parsers' conditions see it: blank; a `#` directive, which
\* may be the fields directive; a record whose timestamp token parses to ts;
\* a record in the parser's format whose timestamp token does not parse
\* (badtime); a line that is not in the parser's format (junk).
Lines ==
  { [kind |-> k, ts |-> 0] :
      k \in {"blank", "directive", "fields", "badtime", "junk"} }
  \cup { [kind |-> "record", ts |-> t] : t \in LogTimes }

RECURSIVE SeqsUpTo(_, _)
SeqsUpTo(S, n) ==
  IF n = 0 THEN { << >> }
  ELSE { << >> } \cup { << x >> \o q : x \in S, q \in SeqsUpTo(S, n - 1) }

\* parsers that keep a line they cannot parse as a Raw event
TextParsers == {"syslog", "wintext", "unified", "webaccess"}

ParseInputs ==
  { [parser |-> ps, lines |-> ls] :
      ps \in TextParsers \cup {"iis", "cloudtrail", "zeek"},
      ls \in SeqsUpTo(Lines, MaxLines) }

EventType(parser) ==
  CASE parser = "syslog" -> "Syslog"
    [] parser = "wintext" -> "WindowsLog"
    [] parser = "unified" -> "UnifiedLog"
    [] parser = "webaccess" -> "WebAccess"
    [] parser = "iis" -> "IISAccess"
    [] parser = "cloudtrail" -> "CloudTrail"
    [] parser = "zeek" -> "Zeek"

RawType(parser) ==
  CASE parser = "syslog" -> "SyslogRaw"
    [] parser = "wintext" -> "WindowsLogRaw"
    [] parser = "unified" -> "UnifiedLogRaw"
    [] parser = "webaccess" -> "WebAccessRaw"

\* core.NewEvent: msg is the pair of how the message was made ("line": the
\* line verbatim, "fields": formatted from the record's fields) and the line.
NewEvent(ts, type, id, how, k) ==
  [ts |-> ts, type |-> type, id |-> id, msg |-> << how, k >>]

\* the timestamp a text parser falls back to: the web access parser keeps
\* the zero time, the others read the clock
FallbackTime(parser, t) == IF parser = "webaccess" THEN 0 ELSE t

\* One line of the syslog, Windows text, unified log or web access parser:
\* line l is the k-th line, t the clock.  Every non-blank line gives one event.
TextLine(parser, l, k, t) ==
  IF l.kind = "blank" THEN << >>
  ELSE IF l.kind = "record"
    THEN << NewEvent(l.ts, EventType(parser), k, "fields", k) >>
  ELSE IF l.kind = "badtime"
    THEN << NewEvent(FallbackTime(parser, t), EventType(parser), k, "fields", k) >>
  ELSE << NewEvent(FallbackTime(parser, t), RawType(parser), k, "line", k) >>

\* One line of IISParser.Parse: directives are skipped, and so are data lines
\* before the fields directive and data lines with too few fields.
IISLine(l, k, seen) ==
  IF l.kind \in {"blank", "directive", "fields"} THEN << >>
  ELSE IF ~seen THEN << >>
  ELSE IF l.kind = "junk" THEN << >>
  ELSE << NewEvent(IF l.kind = "record" THEN l.ts ELSE 0, "IISAccess", k,
                   "fields", k) >>

\* One line of CloudTrailParser.parseJSONL: a line that is not a JSON object
\* is passed over.
CloudTrailLine(l, k) ==
  IF l.kind = "blank" THEN << >>
  ELSE IF l.kind \in {"junk", "directive", "fields"} THEN << >>
  ELSE << NewEvent(IF l.kind = "record" THEN l.ts ELSE 0, "CloudTrail", k,
                   "fields", k) >>

\* One line of ZeekParser.Parse: header lines are consumed, data lines before
\* the #fields header are skipped; n is dataLineNum after this line.
ZeekLine(l, k, seen, n) ==
  IF l.kind \in {"blank", "directive", "fields"} THEN << >>
  ELSE IF ~seen THEN << >>
  ELSE << NewEvent(IF l.kind = "record" THEN l.ts ELSE 0, "Zeek", n,
                   "fields", k) >>

ParseLine(parser, l, k, t, seen, n) ==
  CASE parser \in TextParsers -> TextLine(parser, l, k, t)
    [] parser = "iis" -> IISLine(l, k, seen)
    [] parser = "cloudtrail" -> CloudTrailLine(l, k)
    [] parser = "zeek" -> ZeekLine(l, k, seen, n)

ParseInit ==
  /\ PipelineIdle
  /\ SortIdle
  /\ SinkIdle
  /\ CallIdle
  /\ LateIdle
  /\ parseIn \in ParseInputs
  /\ lineNum = 0
  /\ fieldsSeen = FALSE
  /\ emitted = << >>
  /\ now = Cardinality(LogTimes) + 1
  /\ parseDone = FALSE

parseRest == << pipelineVars, sortVars, sinkVars, callVars, lateVars, parseIn >>

\* The wall clock moves on while the file is read.
Tick ==
  /\ ~parseDone
  /\ now < Cardinality(LogTimes) + 1 + MaxTicks
  /\ now' = now + 1
  /\ UNCHANGED << parseRest, lineNum, fieldsSeen, emitted, parseDone >>

\* One iteration of the scanner loop.
ScanLine ==
  /\ ~parseDone
  /\ lineNum < Len(parseIn.lines)
  /\ LET k == lineNum + 1
         l == parseIn.lines[k]
     IN /\ lineNum' = k
        /\ emitted' = emitted \o ParseLine(parseIn.parser, l, k, now,
                                           fieldsSeen, Len(emitted) + 1)
        /\ fieldsSeen' = (fieldsSeen \/ (parseIn.parser \in {"iis", "zeek"}
                                          /\ l.kind = "fields"))
  /\ UNCHANGED << parseRest, now, parseDone >>

\* The scanner is at the end of the file: Parse returns the events.
ParseReturns ==
  /\ ~parseDone
  /\ lineNum = Len(parseIn.lines)
  /\ parseDone' = TRUE
  /\ UNCHANGED << parseRest, lineNum, fieldsSeen, emitted, now >>

ParseNext == Tick \/ ScanLine \/ ParseReturns

ParseSpec == ParseInit /\ [][ParseNext]_vars


\* ================================================= year-less timestamps
\* Instants are counted in half days from the start of 2021 (0 is the zero
\* time.Time); the calendar years in reach of the year rules.
Years == 2021..2027

\* time.Date(y, m, d, ...): month and day out of range are carried over.
MkDate(y, m, d, h) ==
  LET yy == y + ((m - 1) \div 12)
      mm == ((m - 1) % 12) + 1
      Leap(a) == (a % 4 = 0 /\ a % 100 # 0) \/ a % 400 = 0
      before == << 0, 31, 59, 90, 120, 151, 181, 212, 243, 273, 304, 334 >>
  IN ( 365 * (yy - 2021) + Cardinality({ a \in 2021..(yy - 1) : Leap(a) })
       + before[mm] + (IF mm > 2 /\ Leap(yy) THEN 1 ELSE 0) + d ) * 2 + h

\* Time.Date() and the time of day: the civil fields of an instant
Civil(t) ==
  LET y == CHOOSE a \in Years : MkDate(a, 1, 1, 0) <= t /\ t < MkDate(a + 1, 1, 1, 0)
      m == CHOOSE b \in 1..12 : MkDate(y, b, 1, 0) <= t /\ t < MkDate(y, b + 1, 1, 0)
  IN [y |-> y, m |-> m, d |-> ((t - MkDate(y, m, 1, 0)) \div 2) + 1, h |-> t % 2]

\* Time.AddDate(years, months, days)
AddDate(t, dy, dm, dd) ==
  MkDate(Civil(t).y + dy, Civil(t).m + dm, Civil(t).d + dd, Civil(t).h)

\* a year rule that knows the month rule only
YearRule_MonthOnly(wall, t) ==
  IF Civil(wall).m <= 2 /\ Civil(t).m >= 11 THEN AddDate(t, -1, 0, 0) ELSE t

\* Year boundary detection on the timestamp seeded with the current year:
\* a November/December record read in January/February, else a timestamp
\* more than six months after the wall clock, is moved back one year.
YearRule(wall, t) ==
  IF Civil(wall).m <= 2 /\ Civil(t).m >= 11 THEN AddDate(t, -1, 0, 0)
  ELSE IF t > AddDate(wall, 0, 6, 0) THEN AddDate(t, -1, 0, 0)
  ELSE t

\* a streaming correction that always keeps t
BackwardsRule_Keep(last, t) == t

\* The streaming correction: a timestamp more than 30 days before the last
\* one becomes t plus one year if that is closer to the last one.
BackwardsRule(last, t) ==
  IF last # 0 /\ t < AddDate(last, 0, 0, -30)
    THEN LET plus == AddDate(t, 1, 0, 0)
             Abs(x) == IF x < 0 THEN 0 - x ELSE x
         IN IF Abs(plus - last) < Abs(t - last) THEN plus ELSE t
    ELSE t

\* The timestamp of a year-less record: the record's month, day and time
\* seeded with the year of the wall clock, then the two rules.
ParseYearlessTimestamp(wall, last, rec) ==
  BackwardsRule(last,
                YearRule(wall, MkDate(Civil(wall).y, rec.m, rec.d, rec.h)))

\* The wall clock when Parse starts, lastTimestamp (zero before the first
\* record, else the timestamp of some earlier record) and the record.
YearInputs ==
  { [fn |-> "yearless", wall |-> MkDate(2025, wm, 15, 0), last |-> l, rec |-> r] :
      wm \in 1..12,
      l \in {0} \cup { MkDate(y, m, 15, 0) : y \in {2024, 2025}, m \in 1..12 },
      r \in [m : 1..12, d : {1, 15}, h : {0, 1}] }

YearInit ==
  /\ PipelineIdle /\ SortIdle /\ SinkIdle /\ ParseIdle /\ LateIdle
  /\ callArgs \in YearInputs
  /\ callResult = << >>

callRest == << pipelineVars, sortVars, sinkVars, parseVars, lateVars, callArgs >>

\* parseASLTimestamp / the RFC 3164 branch of LinuxSyslogParser.Parse
ParseYearless ==
  /\ callArgs.fn = "yearless"
  /\ callResult = << >>
  /\ callResult' =
       << ParseYearlessTimestamp(callArgs.wall, callArgs.last, callArgs.rec) >>
  /\ UNCHANGED callRest

YearSpec == YearInit /\ [][ParseYearless]_vars

\* ================================================= numeric timestamps
\* An int64 is four 16-bit limbs, least significant first; arithmetic wraps
\* at 2^64 as Go's does.
Big(n) == << n % 65536, n \div 65536, 0, 0 >>

\* x * k for a k of at most 1000
MulSmall(x, k) ==
  LET p1 == x[1] * k
      p2 == x[2] * k + (p1 \div 65536)
      p3 == x[3] * k + (p2 \div 65536)
      p4 == x[4] * k + (p3 \div 65536)
  IN << p1 % 65536, p2 % 65536, p3 % 65536, p4 % 65536 >>

\* x + y
AddBig(x, y) ==
  LET s1 == x[1] + y[1]
      s2 == x[2] + y[2] + (s1 \div 65536)
      s3 == x[3] + y[3] + (s2 \div 65536)
      s4 == x[4] + y[4] + (s3 \div 65536)
  IN << s1 % 65536, s2 % 65536, s3 % 65536, s4 % 65536 >>

\* x - y
SubBig(x, y) ==
  LET d1 == x[1] - y[1]
      d2 == x[2] - y[2] - (IF d1 < 0 THEN 1 ELSE 0)
      d3 == x[3] - y[3] - (IF d2 < 0 THEN 1 ELSE 0)
      d4 == x[4] - y[4] - (IF d3 < 0 THEN 1 ELSE 0)
  IN << d1 % 65536, d2 % 65536, d3 % 65536, d4 % 65536 >>

\* x > y for non-negative x and y
GreaterBig(x, y) ==
  \E i \in 1..4 : x[i] > y[i] /\ \A j \in (i + 1)..4 : x[j] = y[j]

\* the int64 written in decimal as the digits of hi followed by the nine
\* digits of lo: strconv.ParseInt of such a string
ParseInt(hi, lo) ==
  AddBig(MulSmall(MulSmall(MulSmall(Big(hi), 1000), 1000), 1000), Big(lo))

\* parseTimestamp on an all-digit value that no preferred format parses. The
\* result is the format name and the instant, as a count of seconds or of
\* nanoseconds since 1970, or the zero time.
ParseTimestamp(v) ==
  LET epoch == ParseInt(v.hi, v.lo)
      windowsEpochDiff == ParseInt(116444736, 0)
  IN IF GreaterBig(epoch, ParseInt(1000000, 0))
       THEN [format |-> "unix_micro", unit |-> "ns",
             count |-> MulSmall(epoch, 1000)]
     ELSE IF GreaterBig(epoch, ParseInt(1000, 0))
       THEN [format |-> "unix_milli", unit |-> "ns",
             count |-> MulSmall(MulSmall(epoch, 1000), 1000)]
     ELSE IF GreaterBig(epoch, ParseInt(1, 0))
       THEN [format |-> "unix_sec", unit |-> "s", count |-> epoch]
     ELSE IF /\ GreaterBig(epoch, windowsEpochDiff)
             /\ GreaterBig(ParseInt(200000000, 0), epoch)
       THEN [format |-> "filetime", unit |-> "ns",
             count |-> MulSmall(SubBig(epoch, windowsEpochDiff), 100)]
     ELSE [format |-> "", unit |-> "zero", count |-> Big(0)]

\* All-digit values around each threshold and inside each range.
EpochInputs ==
  { [fn |-> "epoch", hi |-> h, lo |-> l] :
      h \in { 0, 1, 2, 999, 1000, 1600, 999999, 1000000, 1600000,
              116444735, 116444736, 132500000, 160000000, 199999999,
              200000000 },
      l \in { 0, 1, 600000000, 999999999 } }

EpochInit ==
  /\ PipelineIdle /\ SortIdle /\ SinkIdle /\ ParseIdle /\ LateIdle
  /\ callArgs \in EpochInputs
  /\ callResult = << >>

\* one call of parseTimestamp
ParseEpoch ==
  /\ callArgs.fn = "epoch"
  /\ callResult = << >>
  /\ callResult' = << ParseTimestamp(callArgs) >>
  /\ UNCHANGED callRest

EpochSpec == EpochInit /\ [][ParseEpoch]_vars

\* ================================================= the parser registry
\* A file as the registry sees it: its lower-cased base name with the
\* extension filepath.Ext gives, a word of its lower-cased directory path,
\* and what its first lines hold.
FileNames ==
  { [base |-> "x.evtx", ext |-> ".evtx"], [base |-> "app.pf", ext |-> ".pf"],
    [base |-> "events.xml", ext |-> ".xml"],
    [base |-> "trail.json", ext |-> ".json"],
    [base |-> "trail.jsonl", ext |-> ".jsonl"],
    [base |-> "history", ext |-> ""],
    [base |-> "shellbags.txt", ext |-> ".txt"],
    [base |-> "app.log.1", ext |-> ".1"],
    [base |-> "access.log.1", ext |-> ".1"],
    [base |-> "auth.log.1", ext |-> ".1"],
    [base |-> "kern.log.1", ext |-> ".1"],
    [base |-> "syslog.1", ext |-> ".1"],
    [base |-> "transcript.txt", ext |-> ".txt"],
    [base |-> "scriptblock.log", ext |-> ".log"],
    [base |-> "install.log", ext |-> ".log"],
    [base |-> "system.log", ext |-> ".log"],
    [base |-> "logshow.txt", ext |-> ".txt"],
    [base |-> "u_ex230421.log", ext |-> ".log"],
    [base |-> "conn.log", ext |-> ".log"],
    [base |-> "access.log", ext |-> ".log"],
    [base |-> "syslog", ext |-> ""],
    [base |-> "auth.log", ext |-> ".log"],
    [base |-> "cbs.log", ext |-> ".log"],
    [base |-> "windowsupdate.log", ext |-> ".log"],
    [base |-> "pfirewall.log", ext |-> ".log"],
    [base |-> "firewall.txt", ext |-> ".txt"],
    [base |-> "ufw.log", ext |-> ".log"],
    [base |-> "asa.txt", ext |-> ".txt"],
    [base |-> "data.csv", ext |-> ".csv"],
    [base |-> "cloudtrail.log", ext |-> ".log"],
    [base |-> "notes.txt", ext |-> ".txt"] }

\* strings.Contains(baseName, ".log.")
ContainsDotLogDot(f) ==
  f.base \in {"app.log.1", "access.log.1", "auth.log.1", "kern.log.1"}

\* strings.HasSuffix(baseName, ".log")
HasLogSuffix(f) == f.ext = ".log"

\* The markers the content sniffers look for, by what the file holds. An
\* exported Sysmon event carries the event schema too; an ASL line is a
\* syslog line with a level after the process; "rfc3164ps" is a syslog line
\* whose message mentions MessageNumber.
Markers(content) ==
  CASE content = "winevent" -> {"eventSchema"}
    [] content = "task" -> {"taskSchema"}
    [] content = "sysmonconfig" -> {"sysmon"}
    [] content = "sysmonevent" -> {"eventSchema", "sysmon"}
    [] content = "cloudtrail" -> {"cloudtrailFields"}
    [] content = "azure" -> {"azureFields"}
    [] content = "gcp" -> {"gcpFields"}
    [] content = "transcript" -> {"transcriptBanner"}
    [] content = "rfc3164ps" -> {"scriptBlockText"}
    [] content = "asl" -> {"aslLine"}
    [] content = "unified" -> {"unifiedLine"}
    [] content = "zeek" -> {"zeekHeaders"}
    [] OTHER -> {}

\* WindowsXMLEventParser, ScheduledTaskXMLParser, SysmonXMLParser .CanParse
CanParseXML(p, f) ==
  /\ f.ext = ".xml"
  /\ CASE p = "WindowsXMLEventParser" -> "eventSchema" \in Markers(f.content)
       [] p = "ScheduledTaskXMLParser" -> "taskSchema" \in Markers(f.content)
       [] p = "SysmonXMLParser" -> "sysmon" \in Markers(f.content)

\* CloudTrailParser, AzureActivityParser, GCPAuditParser .CanParse
CanParseCloud(p, f) ==
  CASE p = "CloudTrailParser" ->
         \/ f.base \in {"cloudtrail.log"}
         \/ f.ext \in {".json", ".jsonl"} /\ "cloudtrailFields" \in Markers(f.content)
    [] p = "AzureActivityParser" ->
         f.ext \in {".json", ".jsonl"} /\ "azureFields" \in Markers(f.content)
    [] p = "GCPAuditParser" ->
         f.ext \in {".json", ".jsonl"} /\ "gcpFields" \in Markers(f.content)

\* BrowserHistoryParser.CanParse
CanParseBrowser(f) == f.base = "history" /\ f.dir = "chrome"

\* PowerShellTranscriptParser, PowerShellScriptBlockParser .CanParse
CanParsePowerShell(p, f) ==
  CASE p = "PowerShellTranscriptParser" ->
         \/ f.base \in {"transcript.txt"}
         \/ "transcriptBanner" \in Markers(f.content)
    [] p = "PowerShellScriptBlockParser" ->
         \/ f.base \in {"scriptblock.log"}
         \/ "scriptBlockText" \in Markers(f.content)

\* MacOSInstallLogParser, MacOSASLParser, MacOSUnifiedLogParser .CanParse
CanParseMacOS(p, f) ==
  CASE p = "MacOSInstallLogParser" -> f.base = "install.log"
    [] p = "MacOSASLParser" ->
         f.base = "system.log" \/ "aslLine" \in Markers(f.content)
    [] p = "MacOSUnifiedLogParser" ->
         f.base \in {"logshow.txt"} \/ "unifiedLine" \in Markers(f.content)

\* IISParser.CanParse
CanParseIIS(f) ==
  \/ f.base \in {"u_ex230421.log"}
  \/ f.dir = "inetpub" /\ HasLogSuffix(f)

\* ZeekParser.CanParse
CanParseZeek(f) ==
  \/ f.dir = "zeek" /\ HasLogSuffix(f)
  \/ f.base = "conn.log"
  \/ HasLogSuffix(f) /\ "zeekHeaders" \in Markers(f.content)

\* WebAccessParser.CanParse
CanParseWeb(f) == f.base \in {"access.log", "access.log.1"}

\* LinuxSyslogParser.CanParse
CanParseSyslog(f) ==
  f.base \in {"syslog", "auth.log", "syslog.1", "auth.log.1", "kern.log.1"}

\* WindowsTextParser.CanParse
CanParseWinText(f) == f.base \in {"cbs.log", "windowsupdate.log"}

\* WindowsFirewallParser, IptablesParser, CiscoASAParser .CanParse
CanParseNetwork(p, f) ==
  CASE p = "WindowsFirewallParser" -> f.base = "pfirewall.log"
    [] p = "IptablesParser" ->
         f.base = "ufw.log" \/ f.base \in {"pfirewall.log", "firewall.txt"}
    [] p = "CiscoASAParser" -> f.base \in {"asa.txt"}

\* CSVArtifactParser.CanParse
CanParseCSV(f) == f.ext = ".csv"

\* Parser.CanParse of the parsers the registry asks
CanParse(p, f) ==
  CASE p \in {"WindowsXMLEventParser", "ScheduledTaskXMLParser",
              "SysmonXMLParser"} -> CanParseXML(p, f)
    [] p \in {"CloudTrailParser", "AzureActivityParser", "GCPAuditParser"} ->
         CanParseCloud(p, f)
    [] p = "BrowserHistoryParser" -> CanParseBrowser(f)
    [] p \in {"PowerShellTranscriptParser", "PowerShellScriptBlockParser"} ->
         CanParsePowerShell(p, f)
    [] p \in {"MacOSInstallLogParser", "MacOSASLParser",
              "MacOSUnifiedLogParser"} -> CanParseMacOS(p, f)
    [] p = "IISParser" -> CanParseIIS(f)
    [] p = "ZeekParser" -> CanParseZeek(f)
    [] p = "WebAccessParser" -> CanParseWeb(f)
    [] p = "LinuxSyslogParser" -> CanParseSyslog(f)
    [] p = "WindowsTextParser" -> CanParseWinText(f)
    [] p \in {"WindowsFirewallParser", "IptablesParser", "CiscoASAParser"} ->
         CanParseNetwork(p, f)
    [] p = "CSVArtifactParser" -> CanParseCSV(f)

\* the parsers asked one after the other, with the web parser asked before
\* the IIS parser
LaterParsers_WebBeforeIIS ==
  << "PowerShellTranscriptParser", "PowerShellScriptBlockParser",
     "MacOSInstallLogParser", "MacOSASLParser", "MacOSUnifiedLogParser",
     "WebAccessParser", "IISParser", "ZeekParser", "LinuxSyslogParser",
     "WindowsTextParser", "WindowsFirewallParser", "IptablesParser",
     "CiscoASAParser", "CSVArtifactParser" >>

\* The parsers GetParserForFile asks one after the other once the extension
\* and file name rules have not bound the file.
LaterParsers ==
  << "PowerShellTranscriptParser", "PowerShellScriptBlockParser",
     "MacOSInstallLogParser", "MacOSASLParser", "MacOSUnifiedLogParser",
     "IISParser", "ZeekParser", "WebAccessParser", "LinuxSyslogParser",
     "WindowsTextParser", "WindowsFirewallParser", "IptablesParser",
     "CiscoASAParser", "CSVArtifactParser" >>

\* GetParserForFile, every rule of it (the pipeline above needs three only)
GetParserForPath(f) ==
  IF f.ext = ".evtx" THEN "EvtxParser"
  ELSE IF f.ext = ".pf" THEN "PrefetchParser"
  ELSE IF f.ext = ".xml" THEN
    IF CanParse("WindowsXMLEventParser", f) THEN "WindowsXMLEventParser"
    ELSE IF CanParse("ScheduledTaskXMLParser", f) THEN "ScheduledTaskXMLParser"
    ELSE IF CanParse("SysmonXMLParser", f) THEN "SysmonXMLParser"
    ELSE "GenericXMLParser"
  ELSE IF f.ext \in {".json", ".jsonl"} /\ CanParse("CloudTrailParser", f)
    THEN "CloudTrailParser"
  ELSE IF f.ext \in {".json", ".jsonl"} /\ CanParse("AzureActivityParser", f)
    THEN "AzureActivityParser"
  ELSE IF f.ext \in {".json", ".jsonl"} /\ CanParse("GCPAuditParser", f)
    THEN "GCPAuditParser"
  ELSE IF f.ext = ".json" THEN "JsonParser"
  ELSE IF CanParse("BrowserHistoryParser", f) THEN "BrowserHistoryParser"
  ELSE IF f.base \in {"shellbags.txt"} THEN "ShellbagsParser"
  ELSE IF ContainsDotLogDot(f) THEN "LogParser"
  ELSE IF \E i \in 1..Len(LaterParsers) : CanParse(LaterParsers[i], f)
    THEN LaterParsers[CHOOSE i \in 1..Len(LaterParsers) :
                        /\ CanParse(LaterParsers[i], f)
                        /\ \A j \in 1..(i - 1) : ~CanParse(LaterParsers[j], f)]
  ELSE "LogParser"

\* fmt.Sprintf("[%s] %s", a, b), as the pieces it joins
Bracketed(a, b) == << "[", a, "] ", b >>

\* The one line of the file, by what the file holds: the fields the
\* patterns of the three parsers capture from it.
LineFields(content) ==
  CASE content = "rfc5424" ->
         [ts |-> MkDate(2023, 1, 1, 1), host |-> "myhost",
          tag |-> "myapp[123]", msg |-> "Test message"]
    [] content = "rfc3164" ->
         [rec |-> [m |-> 1, d |-> 1, h |-> 1], host |-> "oldhost",
          tag |-> "sshd[456]", msg |-> "Failed password"]
    [] content = "asl" ->
         [rec |-> [m |-> 1, d |-> 1, h |-> 1], host |-> "oldhost",
          tag |-> "sshd[456] <Notice>", msg |-> "Failed password"]
    [] content = "rfc3164ps" ->
         [rec |-> [m |-> 1, d |-> 1, h |-> 1], host |-> "oldhost",
          tag |-> "app[1]", msg |-> "MessageNumber 3"]
    [] content = "clf" ->
         [ts |-> MkDate(2023, 4, 21, 1), host |-> "127.0.0.1",
          method |-> "GET", path |-> "/index.html", status |-> "200"]
    [] content = "cbs" ->
         [ts |-> MkDate(2023, 4, 21, 1), tag |-> "Info",
          msg |-> "Cbs    Starting TrustedInstaller..."]
    [] content = "wu" ->
         [ts |-> MkDate(2023, 4, 21, 1), tag |-> "1234",
          msg |-> "5678 Misc Validating signature..."]

\* LinuxSyslogParser.Parse on a file of one line
SyslogParse(f) ==
  IF f.content = "rfc5424"
    THEN << [type |-> "Syslog", host |-> LineFields(f.content).host,
             message |-> Bracketed(LineFields(f.content).tag,
                                   LineFields(f.content).msg),
             ts |-> LineFields(f.content).ts] >>
  ELSE IF f.content \in {"rfc3164", "asl", "rfc3164ps"}
    THEN << [type |-> "Syslog", host |-> LineFields(f.content).host,
             message |-> Bracketed(LineFields(f.content).tag,
                                   LineFields(f.content).msg),
             ts |-> ParseYearlessTimestamp(f.wall, 0,
                                           LineFields(f.content).rec)] >>
  ELSE << [type |-> "SyslogRaw", host |-> "", message |-> << f.content >>,
           ts |-> f.wall] >>

\* WebAccessParser.Parse on a file of one line
WebAccessParse(f) ==
  IF f.content = "clf"
    THEN << [type |-> "WebAccess", host |-> LineFields(f.content).host,
             message |-> << LineFields(f.content).method, " ",
                            LineFields(f.content).path, " (Status: ",
                            LineFields(f.content).status, ")" >>,
             ts |-> LineFields(f.content).ts] >>
    ELSE << [type |-> "WebAccessRaw", host |-> "",
             message |-> << f.content >>, ts |-> 0] >>

\* WindowsTextParser.Parse on a file of one line
WindowsTextParse(f) ==
  IF f.content \in {"cbs", "wu"}
    THEN << [type |-> "WindowsLog", host |-> "",
             message |-> Bracketed(LineFields(f.content).tag,
                                   LineFields(f.content).msg),
             ts |-> LineFields(f.content).ts] >>
    ELSE << [type |-> "WindowsLogRaw", host |-> "",
             message |-> << f.content >>, ts |-> f.wall] >>

\* Files of one line: every name in every directory with every content.
RegistryInputs ==
  { [fn |-> "registry", base |-> n.base, ext |-> n.ext, dir |-> d,
     content |-> c, wall |-> MkDate(2025, 6, 15, 0)] :
      n \in FileNames,
      d \in {"logzero_test", "inetpub", "zeek", "chrome"},
      c \in {"winevent", "task", "sysmonconfig", "sysmonevent", "cloudtrail",
             "azure", "gcp", "transcript", "rfc3164ps", "asl", "unified",
             "zeek", "rfc5424", "rfc3164", "clf", "cbs", "wu", "other"} }

RegistryInit ==
  /\ PipelineIdle /\ SortIdle /\ SinkIdle /\ ParseIdle /\ LateIdle
  /\ callArgs \in RegistryInputs
  /\ callResult = << >>

\* parser, err := GetParserForFile(filePath)
GetParserCall ==
  /\ callArgs.fn = "registry"
  /\ callResult = << >>
  /\ callResult' = << GetParserForPath(callArgs) >>
  /\ UNCHANGED callRest

\* events, err := parser.Parse(filePath), for the three text parsers
ParseCall ==
  /\ callArgs.fn = "registry"
  /\ Len(callResult) = 1
  /\ callResult[1] \in {"LinuxSyslogParser", "WebAccessParser", "WindowsTextParser"}
  /\ callResult' =
       << callResult[1],
          CASE callResult[1] = "LinuxSyslogParser" -> SyslogParse(callArgs)
            [] callResult[1] = "WebAccessParser" -> WebAccessParse(callArgs)
            [] callResult[1] = "WindowsTextParser" -> WindowsTextParse(callArgs) >>
  /\ UNCHANGED callRest

RegistryNext == GetParserCall \/ ParseCall

RegistrySpec == RegistryInit /\ [][RegistryNext]_vars


\* ================================================================ retry
\* the pipeline and the functions called on their own
coreVars == << pipelineVars, sortVars, sinkVars, parseVars, callVars >>
CoreIdle == PipelineIdle /\ SortIdle /\ SinkIdle /\ ParseIdle /\ CallIdle

\* fn fails on every invocation before the okAt-th and returns nil on that
\* one; the error of the k-th invocation is told apart by k
Fn(k) == IF k = retryIn.okAt THEN NoErr ELSE [kind |-> "fn", n |-> k]

CtxErr == [kind |-> "ctx", n |-> 0]

\* errors.New("unexpected error in retry logic")
Unexpected == [kind |-> "unexpected", n |-> 0]

RetryInputs ==
  { [fn |-> f, max |-> m, okAt |-> s] :
      f \in {"WithRetryConfig", "WithRetryContextConfig"},
      m \in 0..MaxAttemptsTried, s \in 1..(MaxAttemptsTried + 1) }

RetryInit ==
  /\ CoreIdle
  /\ CacheIdle
  /\ ServerIdle
  /\ GuiIdle
  /\ retryIn \in RetryInputs
  /\ rpc = "loop"
  /\ attempt = 1
  /\ calls = 0
  /\ rerr = NoErr
  /\ ctxFired \in BOOLEAN
  /\ ctxFired => retryIn.fn = "WithRetryContextConfig"
  /\ rret = NoErr

retryRest == << coreVars, cacheVars, serverVars, guiVars, retryIn >>

\* the context is cancelled while the call is on
CtxCancel ==
  /\ retryIn.fn = "WithRetryContextConfig"
  /\ rpc \in {"loop", "call", "wait"}
  /\ ~ctxFired
  /\ ctxFired' = TRUE
  /\ UNCHANGED << retryRest, rpc, attempt, calls, rerr, rret >>

RetryReturn(e) == rpc' = "done" /\ rret' = e

\* a loop head that does not look at the context
LoopHead_NoCtxCheck ==
  /\ rpc = "loop"
  /\ IF attempt > retryIn.max THEN RetryReturn(Unexpected)
     ELSE rpc' = "call" /\ UNCHANGED rret
  /\ UNCHANGED << retryRest, attempt, calls, rerr, ctxFired >>

\* The loop condition, then (WithRetryContextConfig) the non-blocking select
\* on ctx.Done().
LoopHead ==
  /\ rpc = "loop"
  /\ IF attempt > retryIn.max THEN RetryReturn(Unexpected)
     ELSE IF retryIn.fn = "WithRetryContextConfig" /\ ctxFired
       THEN RetryReturn(CtxErr)
     ELSE rpc' = "call" /\ UNCHANGED rret
  /\ UNCHANGED << retryRest, attempt, calls, rerr, ctxFired >>

\* an attempt that goes on to the backoff after the last permitted attempt
Attempt_NoLastCheck ==
  /\ rpc = "call"
  /\ calls' = calls + 1
  /\ rerr' = Fn(calls + 1)
  /\ IF Fn(calls + 1) = NoErr THEN RetryReturn(NoErr)
     ELSE rpc' = "wait" /\ UNCHANGED rret
  /\ UNCHANGED << retryRest, attempt, ctxFired >>

\* err = fn(); return nil on success, the error on the last attempt, else
\* go on to the backoff.
Attempt ==
  /\ rpc = "call"
  /\ calls' = calls + 1
  /\ rerr' = Fn(calls + 1)
  /\ IF Fn(calls + 1) = NoErr THEN RetryReturn(NoErr)
     ELSE IF attempt = retryIn.max THEN RetryReturn(Fn(calls + 1))
     ELSE rpc' = "wait" /\ UNCHANGED rret
  /\ UNCHANGED << retryRest, attempt, ctxFired >>

\* time.Sleep(backoff) returns / the select takes <-time.After(backoff);
\* attempt++.
BackoffElapsed ==
  /\ rpc = "wait"
  /\ attempt' = attempt + 1
  /\ rpc' = "loop"
  /\ UNCHANGED << retryRest, calls, rerr, ctxFired, rret >>

\* the backoff select takes <-ctx.Done()
BackoffCancelled ==
  /\ rpc = "wait"
  /\ retryIn.fn = "WithRetryContextConfig"
  /\ ctxFired
  /\ RetryReturn(CtxErr)
  /\ UNCHANGED << retryRest, attempt, calls, rerr, ctxFired >>

RetryNext ==
  \/ CtxCancel
  \/ LoopHead
  \/ Attempt
  \/ BackoffElapsed
  \/ BackoffCancelled

RetrySpec == RetryInit /\ [][RetryNext]_vars


\* ========================================================= header cache
CacheInit ==
  /\ CoreIdle
  /\ RetryIdle
  /\ ServerIdle
  /\ GuiIdle
  /\ headers = [p \in HeaderPaths |-> 0]
  /\ disk = [p \in HeaderPaths |-> 1]
  /\ running = FALSE
  /\ runNo = 0
  /\ peeked = << >>

cacheRest == << coreVars, retryVars, serverVars, guiVars >>

\* ProcessPathWithContext is called.
RunStarts ==
  /\ ~running
  /\ runNo < MaxRuns
  /\ running' = TRUE
  /\ runNo' = runNo + 1
  /\ UNCHANGED << cacheRest, headers, disk, peeked >>

\* getFileHeader(p): the cached lines when there are any, else the first
\* lines read from the file, which are cached.
GetFileHeader(p) ==
  /\ IF headers[p] # 0
       THEN /\ peeked' = << [path |-> p, lines |-> headers[p], run |-> runNo] >>
            /\ UNCHANGED headers
       ELSE /\ peeked' = << [path |-> p, lines |-> disk[p], run |-> runNo] >>
            /\ headers' = [headers EXCEPT ![p] = disk[p]]
  /\ UNCHANGED << cacheRest, disk, running, runNo >>

\* a classifier peeks at the content of a file of the run
ClassifierPeek ==
  /\ running
  /\ \E p \in HeaderPaths : GetFileHeader(p)

\* clearFileHeaderCache
ClearFileHeaderCache == [p \in HeaderPaths |-> 0]

\* ProcessPathWithContext returns: the processor leaves the cache as it is.
RunReturns ==
  /\ running
  /\ running' = FALSE
  /\ UNCHANGED << cacheRest, headers, disk, runNo, peeked >>

\* between two runs a log file is appended to, rotated or replaced
FileRewritten ==
  /\ ~running
  /\ \E p \in HeaderPaths :
       /\ disk[p] < MaxRuns
       /\ disk' = [disk EXCEPT ![p] = disk[p] + 1]
  /\ UNCHANGED << cacheRest, headers, running, runNo, peeked >>

CacheNext ==
  \/ RunStarts
  \/ ClassifierPeek
  \/ RunReturns
  \/ FileRewritten

CacheSpec == CacheInit /\ [][CacheNext]_vars

\* ------------------------------------------------------------ API server
\* The HTTP API server: POST /config, /start, /stop and /shutdown, the
\* processing goroutine each accepted /start spawns, the broadcaster that
\* drains s.progressChan, and Server.Stop with its two callers (the
\* goroutine of /shutdown and the signal handler of runAPIServer).

\* the formats a /config request may name: a supported one in a spelling
\* Validate normalises, and an unsupported one
RequestFormats == {"SQLite", "xml"}

SupportedFormats == {"csv", "jsonl", "sqlite"}

ConfigToLower(f) == IF f = "SQLite" THEN "sqlite" ELSE f

\* app.NewDefaultConfig: format jsonl, no paths yet
NewDefaultConfig == [format |-> "jsonl", paths |-> FALSE]

\* Config.Validate: lower-cases the format in place, then reports whether
\* it is a supported one
Validate(c) ==
  [cfg |-> [c EXCEPT !.format = ConfigToLower(c.format)],
   ok  |-> ConfigToLower(c.format) \in SupportedFormats]

\* App.Initialize can succeed only with paths and a format GetWriter knows
CanInitialize(c) == c.paths /\ ConfigToLower(c.format) \in SupportedFormats

\* NewServer followed by Start: the default configuration, nothing
\* running, the broadcaster started
ServerInit ==
  /\ CoreIdle
  /\ RetryIdle
  /\ CacheIdle
  /\ GuiIdle
  /\ srvConfig = NewDefaultConfig
  /\ isProcessing = FALSE
  /\ cancelFunc = 0
  /\ application = 0
  /\ gpc = [r \in Runs |-> "none"]
  /\ gctx = [r \in Runs |-> FALSE]
  /\ gcfg = [r \in Runs |-> NoConfig]
  /\ cleaned = [r \in Runs |-> FALSE]
  /\ srvChan = 0
  /\ shutdownSignal = "open"
  /\ broadcaster = TRUE
  /\ httpDown = FALSE
  /\ stopPc = [k \in StopCallers |-> "idle"]
  /\ procState = "up"
  /\ resp = << >>

serverRest == << coreVars, retryVars, cacheVars, guiVars >>

\* the HTTP server still accepts requests
Serving == procState = "up" /\ ~httpDown

\* the processing goroutines that were started and have not returned
RunningGoroutines == {r \in Runs : gpc[r] \in {"process", "final", "reset", "cleanup"}}

Response(req, code) == [req |-> req, code |-> code, before |-> srvConfig]

\* handleConfig: the paths are validated before the lock is taken; under
\* the lock a running job gives 409; otherwise s.config is replaced by the
\* requested configuration and only then validated
handleConfig ==
  /\ Serving
  /\ \E f \in RequestFormats, pathOK \in BOOLEAN :
       IF ~pathOK
         THEN /\ resp' = Response("config", 400)
              /\ UNCHANGED srvConfig
         ELSE IF isProcessing
           THEN /\ resp' = Response("config", 409)
                /\ UNCHANGED srvConfig
           ELSE /\ srvConfig' = Validate([format |-> f, paths |-> TRUE]).cfg
                /\ resp' = Response("config",
                     IF Validate([format |-> f, paths |-> TRUE]).ok THEN 200 ELSE 400)
  /\ UNCHANGED << serverRest, isProcessing, cancelFunc, application, gpc, gctx,
                  gcfg, cleaned, srvChan, shutdownSignal, broadcaster,
                  httpDown, stopPc, procState >>

\* handleStart: under the lock, 409 while isProcessing; otherwise
\* s.application is replaced by an application of s.config, a failing
\* Initialize gives 500, else the goroutine is started
handleStart ==
  /\ Serving
  /\ IF isProcessing
       THEN /\ resp' = Response("start", 409)
            /\ UNCHANGED << application, cancelFunc, isProcessing, gpc, gcfg >>
       ELSE \E r \in Runs, initOK \in {b \in BOOLEAN : b => CanInitialize(srvConfig)} :
              /\ gpc[r] = "none"
              /\ \A q \in Runs : q < r => gpc[q] # "none"
              /\ application' = r
              /\ gcfg' = [gcfg EXCEPT ![r] = srvConfig]
              /\ IF initOK
                   THEN /\ cancelFunc' = r
                        /\ isProcessing' = TRUE
                        /\ gpc' = [gpc EXCEPT ![r] = "process"]
                        /\ resp' = Response("start", 200)
                   ELSE /\ gpc' = [gpc EXCEPT ![r] = "failed"]
                        /\ resp' = Response("start", 500)
                        /\ UNCHANGED << cancelFunc, isProcessing >>
  /\ UNCHANGED << serverRest, srvConfig, gctx, cleaned, srvChan, shutdownSignal,
                  broadcaster, httpDown, stopPc, procState >>

\* stopProcessing: under the lock, cancels the running job's context
stopProcessing ==
  IF isProcessing /\ cancelFunc # 0
    THEN gctx' = [gctx EXCEPT ![cancelFunc] = TRUE]
    ELSE UNCHANGED gctx

\* handleStop: stopProcessing, then 200 with whether something was stopped
handleStop ==
  /\ Serving
  /\ stopProcessing
  /\ resp' = Response("stop", 200)
  /\ UNCHANGED << serverRest, srvConfig, isProcessing, cancelFunc, application,
                  gpc, gcfg, cleaned, srvChan, shutdownSignal, broadcaster,
                  httpDown, stopPc, procState >>

\* the progress callback of a run: a non-blocking send to s.progressChan
\* (a full channel drops the update, which changes nothing)
progressCallback(r) ==
  /\ procState = "up"
  /\ gpc[r] = "process"
  /\ srvChan < ProgressCap
  /\ srvChan' = srvChan + 1
  /\ UNCHANGED << serverRest, srvConfig, isProcessing, cancelFunc, application,
                  gpc, gctx, gcfg, cleaned, shutdownSignal, broadcaster,
                  httpDown, stopPc, procState, resp >>

\* s.application.Process returns, by itself or because its context was
\* cancelled
AppProcessReturns(r) ==
  /\ procState = "up"
  /\ gpc[r] = "process"
  /\ gpc' = [gpc EXCEPT ![r] = "final"]
  /\ UNCHANGED << serverRest, srvConfig, isProcessing, cancelFunc, application,
                  gctx, gcfg, cleaned, srvChan, shutdownSignal, broadcaster,
                  httpDown, stopPc, procState, resp >>

\* the final update: a blocking send to s.progressChan
FinalSend(r) ==
  /\ procState = "up"
  /\ gpc[r] = "final"
  /\ srvChan < ProgressCap
  /\ srvChan' = srvChan + 1
  /\ gpc' = [gpc EXCEPT ![r] = "reset"]
  /\ UNCHANGED << serverRest, srvConfig, isProcessing, cancelFunc, application,
                  gctx, gcfg, cleaned, shutdownSignal, broadcaster, httpDown,
                  stopPc, procState, resp >>

\* the deferred function, first half: under the lock, the flags are reset
DeferredReset(r) ==
  /\ procState = "up"
  /\ gpc[r] = "reset"
  /\ isProcessing' = FALSE
  /\ cancelFunc' = 0
  /\ gpc' = [gpc EXCEPT ![r] = "cleanup"]
  /\ UNCHANGED << serverRest, srvConfig, application, gctx, gcfg, cleaned,
                  srvChan, shutdownSignal, broadcaster, httpDown, stopPc,
                  procState, resp >>

\* the deferred function, second half: after the unlock, Cleanup is called
\* on whatever s.application is by then
DeferredCleanup(r) ==
  /\ procState = "up"
  /\ gpc[r] = "cleanup"
  /\ cleaned' = IF application # 0
                  THEN [cleaned EXCEPT ![application] = TRUE]
                  ELSE cleaned
  /\ gpc' = [gpc EXCEPT ![r] = "gone"]
  /\ UNCHANGED << serverRest, srvConfig, isProcessing, cancelFunc, application,
                  gctx, gcfg, srvChan, shutdownSignal, broadcaster, httpDown,
                  stopPc, procState, resp >>

\* broadcastProgress, the receive case of its select
BroadcastReceive ==
  /\ procState = "up"
  /\ broadcaster
  /\ srvChan > 0
  /\ srvChan' = srvChan - 1
  /\ UNCHANGED << serverRest, srvConfig, isProcessing, cancelFunc, application,
                  gpc, gctx, gcfg, cleaned, shutdownSignal, broadcaster,
                  httpDown, stopPc, procState, resp >>

\* broadcastProgress, the shutdownSignal case of its select: it returns
BroadcastReturn ==
  /\ procState = "up"
  /\ broadcaster
  /\ shutdownSignal = "closed"
  /\ broadcaster' = FALSE
  /\ UNCHANGED << serverRest, srvConfig, isProcessing, cancelFunc, application,
                  gpc, gctx, gcfg, cleaned, srvChan, shutdownSignal, httpDown,
                  stopPc, procState, resp >>

\* handleShutdown: 200, and a goroutine that will call s.Stop()
handleShutdown ==
  /\ Serving
  /\ stopPc["shutdown"] = "idle"
  /\ stopPc' = [stopPc EXCEPT !["shutdown"] = "close"]
  /\ resp' = Response("shutdown", 200)
  /\ UNCHANGED << serverRest, srvConfig, isProcessing, cancelFunc, application,
                  gpc, gctx, gcfg, cleaned, srvChan, shutdownSignal,
                  broadcaster, httpDown, procState >>

\* runAPIServer receives a termination signal and will call server.Stop
SignalReceived ==
  /\ procState = "up"
  /\ stopPc["signal"] = "idle"
  /\ stopPc' = [stopPc EXCEPT !["signal"] = "close"]
  /\ UNCHANGED << serverRest, srvConfig, isProcessing, cancelFunc, application,
                  gpc, gctx, gcfg, cleaned, srvChan, shutdownSignal,
                  broadcaster, httpDown, procState, resp >>

\* Server.Stop, its first statement: close(s.shutdownSignal); closing a
\* closed channel panics
StopClose(k) ==
  /\ procState = "up"
  /\ stopPc[k] = "close"
  /\ IF shutdownSignal = "closed"
       THEN /\ procState' = "panicked"
            /\ stopPc' = [stopPc EXCEPT ![k] = "done"]
            /\ UNCHANGED shutdownSignal
       ELSE /\ shutdownSignal' = "closed"
            /\ stopPc' = [stopPc EXCEPT ![k] = "rest"]
            /\ UNCHANGED procState
  /\ UNCHANGED << serverRest, srvConfig, isProcessing, cancelFunc, application,
                  gpc, gctx, gcfg, cleaned, srvChan, broadcaster, httpDown,
                  resp >>

\* Server.Stop, the rest: stopProcessing, then httpServer.Shutdown
StopRest(k) ==
  /\ procState = "up"
  /\ stopPc[k] = "rest"
  /\ stopProcessing
  /\ httpDown' = TRUE
  /\ stopPc' = [stopPc EXCEPT ![k] = "done"]
  /\ UNCHANGED << serverRest, srvConfig, isProcessing, cancelFunc, application,
                  gpc, gcfg, cleaned, srvChan, shutdownSignal, broadcaster,
                  procState, resp >>

\* runAPIServer returns after its server.Stop: the process ends, and with
\* it every goroutine
ProcessExit ==
  /\ procState = "up"
  /\ stopPc["signal"] = "done"
  /\ procState' = "exited"
  /\ UNCHANGED << serverRest, srvConfig, isProcessing, cancelFunc, application,
                  gpc, gctx, gcfg, cleaned, srvChan, shutdownSignal,
                  broadcaster, httpDown, stopPc, resp >>

ServerNext ==
  \/ handleConfig
  \/ handleStart
  \/ handleStop
  \/ handleShutdown
  \/ SignalReceived
  \/ BroadcastReceive
  \/ BroadcastReturn
  \/ ProcessExit
  \/ \E r \in Runs : progressCallback(r)
  \/ \E r \in Runs : AppProcessReturns(r)
  \/ \E r \in Runs : FinalSend(r)
  \/ \E r \in Runs : DeferredReset(r)
  \/ \E r \in Runs : DeferredCleanup(r)
  \/ \E k \in StopCallers : StopClose(k)
  \/ \E k \in StopCallers : StopRest(k)

ServerSpec == ServerInit /\ [][ServerNext]_vars

\* Every goroutine that can take a step eventually takes one; Process
\* returns (the pipeline terminates); no request is ever forced.
ServerFairness ==
  /\ WF_vars(BroadcastReceive)
  /\ \A r \in Runs : WF_vars(AppProcessReturns(r))
  /\ \A r \in Runs : WF_vars(FinalSend(r))
  /\ \A r \in Runs : WF_vars(DeferredReset(r))
  /\ \A r \in Runs : WF_vars(DeferredCleanup(r))
  /\ \A k \in StopCallers : WF_vars(StopClose(k))
  /\ \A k \in StopCallers : WF_vars(StopRest(k))

ServerLiveSpec == ServerInit /\ [][ServerNext]_vars /\ ServerFairness



\* ------------------------------------------------------------ desktop App
\* The Wails App: StartProcessing and StopProcessing as the frontend calls
\* them, and the goroutine (runProcessing, runProcessingMultiple) each
\* successful StartProcessing spawns.

\* a new App: nothing processing, no cancel function
GuiInit ==
  /\ CoreIdle
  /\ RetryIdle
  /\ CacheIdle
  /\ ServerIdle
  /\ guiProcessing = FALSE
  /\ guiCancel = 0
  /\ guiPc = [r \in Starts |-> "none"]
  /\ guiCtx = [r \in Starts |-> FALSE]
  /\ guiPending = 0
  /\ guiRet = "none"

guiRest == << coreVars, retryVars, cacheVars, serverVars >>

\* the goroutines that were started and have not returned
ActiveGoroutines ==
  {r \in Starts : guiPc[r] \in {"start", "process", "failed", "reset"}}

\* StartProcessing up to its unlock: an error while isProcessing,
\* otherwise isProcessing is set
StartProcessing ==
  /\ guiPending = 0
  /\ IF guiProcessing
       THEN /\ guiRet' = "already in progress"
            /\ UNCHANGED << guiProcessing, guiPending, guiPc >>
       ELSE \E r \in Starts :
              /\ guiPc[r] = "none"
              /\ \A q \in Starts : q < r => guiPc[q] # "none"
              /\ guiProcessing' = TRUE
              /\ guiPending' = r
              /\ guiPc' = [guiPc EXCEPT ![r] = "called"]
              /\ UNCHANGED guiRet
  /\ UNCHANGED << guiRest, guiCancel, guiCtx >>

\* StartProcessing after its unlock: the cancel function is stored and the
\* goroutine is started
StartProcessingSpawn ==
  /\ guiPending # 0
  /\ guiCancel' = guiPending
  /\ guiPc' = [guiPc EXCEPT ![guiPending] = "start"]
  /\ guiPending' = 0
  /\ guiRet' = "nil"
  /\ UNCHANGED << guiRest, guiProcessing, guiCtx >>

\* StopProcessing: under the lock, the stored cancel function is called and
\* dropped, and isProcessing is cleared
StopProcessing ==
  /\ guiCtx' = IF guiCancel # 0 THEN [guiCtx EXCEPT ![guiCancel] = TRUE] ELSE guiCtx
  /\ guiCancel' = 0
  /\ guiProcessing' = FALSE
  /\ guiRet' = "nil"
  /\ UNCHANGED << guiRest, guiPc, guiPending >>

\* the goroutine: the input is checked and the writer made (an error
\* returns at once), then the files are processed
RunSetup(r) ==
  /\ guiPc[r] = "start"
  /\ \E ok \in BOOLEAN :
       guiPc' = [guiPc EXCEPT ![r] = IF ok THEN "process" ELSE "failed"]
  /\ UNCHANGED << guiRest, guiProcessing, guiCancel, guiCtx, guiPending, guiRet >>

\* the goroutine: processing ends, by itself or on its cancelled ctx, and
\* the writer is closed
RunEnds(r) ==
  /\ guiPc[r] = "process"
  /\ guiPc' = [guiPc EXCEPT ![r] = "reset"]
  /\ UNCHANGED << guiRest, guiProcessing, guiCancel, guiCtx, guiPending, guiRet >>

\* the goroutine's deferred function: under the lock, isProcessing is
\* cleared
RunDeferred(r) ==
  /\ guiPc[r] \in {"failed", "reset"}
  /\ guiProcessing' = FALSE
  /\ guiPc' = [guiPc EXCEPT ![r] = "gone"]
  /\ UNCHANGED << guiRest, guiCancel, guiCtx, guiPending, guiRet >>

GuiNext ==
  \/ StartProcessing
  \/ StartProcessingSpawn
  \/ StopProcessing
  \/ \E r \in Starts : RunSetup(r)
  \/ \E r \in Starts : RunEnds(r)
  \/ \E r \in Starts : RunDeferred(r)

GuiSpec == GuiInit /\ [][GuiNext]_vars


\* ================================================================ claims
ValidRun == input.statOK /\ input.filter # "invalid"
DirRun == ValidRun /\ input.isDir

\* C1: whenever the cancel token fired before the processor returned, the
\* ProcessStatus is `interrupted` and parsed_events is the value of the
\* processor's event counter.
C1_CancelYieldsInterrupted ==
  (pc = "done" /\ retCancelled) =>
     /\ status.status = "interrupted"
     /\ status.parsed_events = totalEventsProcessed

\* C2: in a directory run, when the token has fired and the error list is
\* non-empty once all workers have finished, the run returns the cancellation
\* and the status is `interrupted`: the collected errors do not win.
C2_CancelWinsOverErrors ==
  (DirRun /\ pc \in {"returned", "done"} /\ retCancelled /\ Len(errs) > 0) =>
     /\ err = "canceled"
     /\ pc = "done" => status.status = "interrupted"

C2_Witness ==
  /\ DirRun /\ pc = "done" /\ retCancelled /\ Len(errs) > 0
  /\ status.status = "interrupted"


\* ---- helpers of the claims
Range(q) == { q[i] : i \in DOMAIN q }
Count(q, e) == Cardinality({ i \in DOMAIN q : q[i] = e })
SameMultiset(a, b) ==
  /\ Len(a) = Len(b)
  /\ \A e \in Range(a) \cup Range(b) : Count(a, e) = Count(b, e)

\* the listing's files, and for a file what reaches the sink
ListedFiles == { input.listing[i] : i \in { j \in DOMAIN input.listing :
                    Catalog[input.listing[j]].kind = "file" } }
Batch(c) == ParseFilterSort(c)
FirstBad(events) ==
  IF \E k \in DOMAIN events : events[k].bad
    THEN CHOOSE k \in DOMAIN events :
           events[k].bad /\ \A j \in 1..(k - 1) : ~events[j].bad
    ELSE 0
BeforeFailure(c) ==
  SubSeq(Batch(c).events, 1, FirstBad(Batch(c).events) - 1)
FromFailure(c) ==
  SubSeq(Batch(c).events, FirstBad(Batch(c).events), Len(Batch(c).events))
HitsBadEvent(c) == Batch(c).err = "nil" /\ FirstBad(Batch(c).events) > 0
\* the events of a file's batch that belong in the output
Accepted(c) ==
  IF FirstBad(Batch(c).events) = 0 THEN Batch(c).events ELSE BeforeFailure(c)
ErrorsOf(c) == Cardinality({ i \in DOMAIN errs : errs[i].file = c })

\* the sink's content when the files are processed one after another
RECURSIVE SerialOutput(_, _)
SerialOutput(listing, acc) ==
  IF listing = << >> THEN acc
  ELSE LET c == Head(listing)
       IN IF Catalog[c].kind = "dir" \/ Batch(c).err # "nil"
            THEN SerialOutput(Tail(listing), acc)
            ELSE SerialOutput(Tail(listing), acc \o Accepted(c))

\* the processor has returned and the token had not fired by then
ReturnedUncancelled == pc \in {"returned", "done"} /\ ~retCancelled

\* C3: without cancellation, the multiset of events a directory run has
\* written is the one a one-by-one processing of the listing writes, whatever
\* the worker count and the interleaving; only the order may differ.
C3_SameMultisetForAnyWorkers ==
  (DirRun /\ ReturnedUncancelled) =>
     SameMultiset(out, SerialOutput(input.listing, << >>))

C3_Witness ==
  /\ DirRun /\ pc = "done" /\ ~cancelled
  /\ input.workers = MaxWorkers
  /\ Len(out) >= 2
  /\ out # SerialOutput(input.listing, << >>)

\* C4: a run is never stopped at the emission of a progress update: when the
\* channel is full the update is dropped and the run proceeds.
C4_ProgressSendNeverBlocks ==
  ~(pc = "f_send" /\ Len(progressChan) >= ProgressCap)

\* C5: the snapshots of this run that the listener has received never go
\* backwards, neither in files_processed nor in events_processed.
ThisRun(u) == u.run = 1
C5_SnapshotsMonotonic ==
  LET r == SelectSeq(received, ThisRun)
  IN \A i \in 1..(Len(r) - 1) :
       /\ r[i].files <= r[i + 1].files
       /\ r[i].events <= r[i + 1].events

C7_ErrorsStopNoWorker ==
  DirRun =>
    /\ \A w \in Workers :
         wpc[w] = "exited" => cancelled \/ (filesClosed /\ filesChan = << >>)
    /\ ReturnedUncancelled =>
         \A c \in ListedFiles :
           IF Batch(c).err # "nil" \/ HitsBadEvent(c)
             THEN ErrorsOf(c) = 1
             ELSE /\ ErrorsOf(c) = 0
                  /\ \A e \in Range(Batch(c).events) : Count(out, e) = 1

C7_Witness ==
  /\ DirRun /\ input.workers = 1 /\ ~cancelled
  /\ Len(errs) >= 1
  /\ wpc[1] = "addfiles"
  /\ Len(wbatch[1]) >= 1

\* C8: a file of unsupported format, the Prefetch and Shellbag placeholders
\* included, adds nothing to the error list (it is counted as skipped).
IsPlaceholder(c) == Catalog[c].ext = ".pf" \/ Catalog[c].shellbag
C8_UnsupportedIsSkipped ==
  \A i \in DOMAIN errs : ~IsPlaceholder(errs[i].file)

\* C9: when Write fails part-way through a batch, the events before the
\* failing one are in the output and stay there, the failing one and those
\* after it are never in the output, and exactly one error is collected for
\* the batch (a single-file run returns the write error).
WriteFailed(c) ==
  \/ \E i \in DOMAIN errs : errs[i].file = c /\ errs[i].stage = "write"
  \/ \E w \in Workers : wpc[w] = "adderr" /\ wfile[w] = c
  \/ ~input.isDir /\ err = "write"
C9_PartialWriteKept ==
  ValidRun =>
    \A c \in { f \in ListedFiles : HitsBadEvent(f) } :
      /\ \A e \in Range(FromFailure(c)) : Count(out, e) = 0
      /\ ErrorsOf(c) <= 1
      /\ WriteFailed(c) =>
           /\ \A e \in Range(BeforeFailure(c)) : Count(out, e) = 1
           /\ input.isDir =>
                ErrorsOf(c) = IF \E w \in Workers : wfile[w] = c THEN 0 ELSE 1
      /\ (input.isDir /\ ReturnedUncancelled) => ErrorsOf(c) = 1

C9_Witness ==
  /\ DirRun /\ pc = "done"
  /\ \E c \in ListedFiles :
       /\ HitsBadEvent(c) /\ WriteFailed(c)
       /\ Len(BeforeFailure(c)) >= 1
       /\ Len(FromFailure(c)) >= 2
       /\ \A e \in Range(BeforeFailure(c)) : Count(out, e) = 1
       /\ Len(out) > Len(BeforeFailure(c))

\* C10: when the input path cannot be stat'ed or the filter pattern does not
\* compile, the processor returns that error with no worker started, no file
\* parsed and nothing written.
C10_EntryErrorsBeforeAnyWork ==
  (~input.statOK \/ input.filter = "invalid") =>
    /\ pc \in {"start", "returned", "done"}
    /\ pc # "start" => err = (IF ~input.statOK THEN "stat" ELSE "filter")
    /\ \A w \in Workers : wpc[w] = "idle"
    /\ out = << >> /\ errs = << >> /\ filesChan = << >> /\ fbatch = << >>
    /\ filesProcessed = 0 /\ filesSkipped = 0 /\ totalEventsProcessed = 0
    /\ pc = "done" /\ ~cancelled => status.status = "error"

C10_Witness ==
  /\ pc = "done" /\ input.statOK /\ input.isDir /\ input.filter = "invalid"
  /\ status.status = "error" /\ err = "filter"

\* the timestamps never go down along s, so the zero-timestamp events lead
NonDecreasing(s) ==
  \A i, j \in DOMAIN s : i < j => s[i].ts <= s[j].ts

ZeroFirst(s) ==
  \A i, j \in DOMAIN s : (i < j /\ s[j].ts = 0) => s[i].ts = 0

\* C11: the batch handed to one Write call of the sink is in non-decreasing
\* timestamp order, the events with the zero timestamp before every event
\* with a real one (in the single-file path and in every worker).
C11_BatchSortedAtWrite ==
  /\ pc = "f_write" => (NonDecreasing(fbatch) /\ ZeroFirst(fbatch))
  /\ \A w \in Workers :
       wpc[w] = "write" => (NonDecreasing(wbatch[w]) /\ ZeroFirst(wbatch[w]))

\* a worker is about to write a batch the parser produced out of order, with
\* a zero-timestamp event behind real ones
C11_Witness ==
  \E w \in Workers :
    /\ wpc[w] = "write"
    /\ Len(wbatch[w]) >= 3
    /\ \E i, j \in DOMAIN wbatch[w] :
         i < j /\ wbatch[w][i].id > wbatch[w][j].id /\ wbatch[w][i].ts = 0
    /\ \E k \in DOMAIN wbatch[w] : wbatch[w][k].ts > 0

\* the fields the filter looks at
FilterFields == {"user", "host", "message", "source"}

\* the records of file c that are to be written under the run's filter
Wanted(c) ==
  { k \in DOMAIN Catalog[c].recs :
      input.filter = "" \/ Catalog[c].recs[k].match \cap FilterFields # {} }

IdsOf(s) == { s[i].id : i \in DOMAIN s }

\* C13: with a filter set, an event reaches the sink iff the regex matches
\* one of its user, host, message and source fields; with no filter every
\* parsed event does.  (The batch handed to Write holds exactly the wanted
\* records of its file, each once, and nothing else is ever in the output.)
C13_FilterIff ==
  /\ pc = "f_write" =>
       (IdsOf(fbatch) = Wanted(input.listing[1])
          /\ Len(fbatch) = Cardinality(Wanted(input.listing[1])))
  /\ \A w \in Workers :
       wpc[w] = "write" =>
         (IdsOf(wbatch[w]) = Wanted(wfile[w])
            /\ Len(wbatch[w]) = Cardinality(Wanted(wfile[w])))
  /\ \A i \in DOMAIN out : out[i].id \in Wanted(out[i].path)

\* a filtered run wrote a file's matching event and left out the event of
\* that file whose only match is in a field the filter does not look at
C13_Witness ==
  /\ input.filter = "valid"
  /\ \E i \in DOMAIN out :
       /\ out[i].match \cap FilterFields # {}
       /\ \E k \in DOMAIN Catalog[out[i].path].recs :
            /\ Catalog[out[i].path].recs[k].match # {}
            /\ Catalog[out[i].path].recs[k].match \cap FilterFields = {}
  /\ pc = "done"

\* C12: events of one file with equal timestamps are written in the order
\* the parser produced them: the per-file sort keeps ties in parser order.
C12_TiesKeepParserOrder ==
  sorted =>
    \A i, j \in DOMAIN slice :
      (i < j /\ slice[i].ts = slice[j].ts) => slice[i].id < slice[j].id

\* C16: once the cancel token has fired during a directory run, no worker
\* dequeues a further path to parse it: a worker at its select leaves the
\* loop; it may only finish the file it already holds.
C16_NoDequeueAfterCancel ==
  [][ \A w \in Workers :
        (cancelled /\ wpc[w] = "select") => wpc'[w] # "parse" ]_vars

\* what the sink has taken so far, in output order
Stream == file \o wbuf

\* C14: concurrent Write calls on one sink are linearized: in the output the
\* events of one batch are never interleaved with those of another, and they
\* keep their order within the batch.
C14_WritesLinearized ==
  /\ \A i, j, l \in DOMAIN Stream :
       (i < j /\ j < l /\ Stream[i].ev.w = Stream[l].ev.w)
          => Stream[j].ev.w = Stream[i].ev.w
  /\ \A i, j \in DOMAIN Stream :
       (i < j /\ Stream[i].ev.w = Stream[j].ev.w)
          => \/ Stream[i].ev.k < Stream[j].ev.k
             \/ Stream[i].ev.k = Stream[j].ev.k /\ Stream[i].part < Stream[j].part

\* a caller waits at the lock with a batch of several events while another
\* caller is in the middle of its own batch
C14_Witness ==
  \E w, v \in SinkWriters :
    /\ w # v
    /\ spc[w] = "lock"
    /\ Len(sinkIn.batch[w]) >= 2
    /\ mu = v
    /\ spc[v] = "loop"
    /\ sidx[v] >= 2

\* the whole record of event e is in the sequence f
RecordIn(f, e) ==
  \E i \in DOMAIN f :
    /\ f[i].ev = e /\ f[i].part = 1
    /\ i + f[i].of - 1 <= Len(f)
    /\ \A d \in 0..(f[i].of - 1) : f[i + d].ev = e /\ f[i + d].part = d + 1

\* the events of the Write calls that returned nil
AcceptedBySink ==
  UNION { { sinkIn.batch[w][k] : k \in DOMAIN sinkIn.batch[w] } :
          w \in { v \in SinkWriters : sres[v] = "nil" } }

\* C15: after Close has returned without error every event accepted by a
\* successful Write call is in the output, for the JSONL, CSV and SQLite
\* sinks, however many events were written since the last periodic flush or
\* commit.
C15_CloseKeepsAccepted ==
  proc = "closed" => \A e \in AcceptedBySink : RecordIn(file, e)

\* a sink was closed that had taken events since its last flush or commit
C15_Witness ==
  /\ proc = "closed"
  /\ AcceptedBySink # {}
  /\ recordCount % FlushEvery # 0
  /\ \A w \in SinkWriters : sres[w] = "nil" /\ Len(sinkIn.batch[w]) >= 1

\* the sequence f is made of whole records only
WholeRecords(f) ==
  \A i \in DOMAIN f :
    /\ f[i].part = 1 \/ (i > 1 /\ f[i - 1].ev = f[i].ev /\ f[i - 1].part = f[i].part - 1)
    /\ f[i].part = f[i].of \/ (i < Len(f) /\ f[i + 1].ev = f[i].ev)

\* C17: after a cancelled run has ended, by the front end closing the sink or
\* by the CLI's interrupt path, the JSONL and CSV output holds only whole
\* records: no record is cut off.
C17_OnlyWholeRecords ==
  (proc \in {"closed", "exited"} /\ interrupted
     /\ sinkIn.kind \in {"jsonl", "csv"}) => WholeRecords(file)

\* the lines scanned so far
Scanned == 1..lineNum

\* a line the text parsers cannot parse: not blank and not in their format
Unparseable(l) == l.kind \in {"junk", "directive", "fields"}

\* C18: for every non-blank line a text parser cannot parse it emits exactly
\* one event, of the parser's Raw type, whose message is the line verbatim
\* and whose timestamp is the zero sentinel; the lines after it are parsed.
C18_RawEventPerBadLine ==
  parseIn.parser \in TextParsers =>
    \A k \in Scanned :
      Unparseable(parseIn.lines[k]) =>
        /\ Cardinality({ i \in DOMAIN emitted : emitted[i].msg[2] = k }) = 1
        /\ \A i \in DOMAIN emitted :
             emitted[i].msg[2] = k =>
               /\ emitted[i].type = RawType(parseIn.parser)
               /\ emitted[i].msg = << "line", k >>
               /\ emitted[i].ts = 0

\* C19: no event carries a timestamp read from the wall clock: an event's
\* timestamp is the one its record carries, or the zero sentinel when the
\* record's timestamp token cannot be resolved.
C19_NoWallClockTimestamp ==
  \A i \in DOMAIN emitted :
    LET l == parseIn.lines[emitted[i].msg[2]]
    IN emitted[i].ts = (IF l.kind = "record" THEN l.ts ELSE 0)

\* lines a parser may leave out of its count: blank lines, and for the
\* formats that have them the comment/directive lines
Skippable(parser, l) ==
  \/ l.kind = "blank"
  \/ parser \in {"iis", "zeek"} /\ l.kind \in {"directive", "fields"}

\* C20: a parser emits one event for every non-empty record of the file;
\* only blank and comment/directive lines are left out.
C20_OneEventPerRecord ==
  Len(emitted) =
    Cardinality({ k \in Scanned : ~Skippable(parseIn.parser, parseIn.lines[k]) })

\* a year-less record has been stamped
Stamped == callArgs.fn = "yearless" /\ callResult # << >>

\* the record's fields seeded with the year of the wall clock
Seeded == MkDate(Civil(callArgs.wall).y, callArgs.rec.m, callArgs.rec.d,
                 callArgs.rec.h)

MonthRuleApplies == Civil(callArgs.wall).m \in {1, 2} /\ callArgs.rec.m \in {11, 12}
SixMonthRuleApplies == Seeded > AddDate(callArgs.wall, 0, 6, 0)

\* C21: a year-less record with no earlier record in the file gets the year
\* before the current one when it is a November/December record read in
\* January/February, and when its timestamp seeded with the current year is
\* more than six months after the wall clock; otherwise the current year.
\* Month, day and time of day are the record's.
C21_AbsentYear ==
  (Stamped /\ callArgs.last = 0) =>
     /\ Civil(callResult[1]).y =
          (IF MonthRuleApplies \/ SixMonthRuleApplies
             THEN Civil(callArgs.wall).y - 1 ELSE Civil(callArgs.wall).y)
     /\ Civil(callResult[1]).m = callArgs.rec.m
     /\ Civil(callResult[1]).d = callArgs.rec.d
     /\ Civil(callResult[1]).h = callArgs.rec.h

\* a first record moved back by the six-month rule alone
C21_Witness ==
  /\ Stamped /\ callArgs.last = 0
  /\ ~MonthRuleApplies /\ SixMonthRuleApplies
  /\ Civil(callResult[1]).y = Civil(callArgs.wall).y - 1

\* the timestamp after the month rule and the six-month rule
AfterYearRules == YearRule(callArgs.wall, Seeded)

\* distance between two instants
Dist(a, b) == IF a < b THEN b - a ELSE a - b

\* C22: when the timestamp t reconstructed by the two year rules is more than
\* 30 days before the previous record's timestamp, the record gets whichever
\* of t and t plus one year is closer to the previous timestamp, also when
\* that undoes the six-month subtraction; otherwise it gets t.
C22_BackwardsCorrection ==
  (Stamped /\ callArgs.last # 0) =>
     LET t == AfterYearRules
         plus == AddDate(t, 1, 0, 0)
     IN IF t < AddDate(callArgs.last, 0, 0, -30)
          THEN /\ callResult[1] \in {t, plus}
               /\ Dist(callResult[1], callArgs.last) <= Dist(t, callArgs.last)
               /\ Dist(callResult[1], callArgs.last) <= Dist(plus, callArgs.last)
          ELSE callResult[1] = t

\* the streaming correction gave back the year the six-month rule took away
C22_Witness ==
  /\ Stamped /\ callArgs.last # 0
  /\ ~MonthRuleApplies /\ SixMonthRuleApplies
  /\ AfterYearRules < AddDate(callArgs.last, 0, 0, -30)
  /\ callResult[1] = Seeded

\* an all-digit value has been resolved
Resolved == callArgs.fn = "epoch" /\ callResult # << >>

\* the value lies in [lowHi * 10^9, highHi * 10^9)
InRange(lowHi, highHi) == lowHi <= callArgs.hi /\ callArgs.hi < highHi

\* C23: an all-digit value is resolved by magnitude alone: about 1.6e9 as
\* Unix seconds, about 1.6e12 as Unix milliseconds, about 1.6e15 as Unix
\* microseconds, and a value in [1.16e17, 2e17) as Windows FILETIME, the
\* instant being (ticks - 116444736000000000) * 100 nanoseconds after 1970.
C23_ResolvedByMagnitude ==
  Resolved =>
    LET r == callResult[1]
        v == ParseInt(callArgs.hi, callArgs.lo)
    IN /\ InRange(1, 2) /\ callArgs.lo > 0 =>
            r = [format |-> "unix_sec", unit |-> "s", count |-> v]
       /\ InRange(1600, 1601) =>
            r = [format |-> "unix_milli", unit |-> "ns",
                 count |-> MulSmall(MulSmall(v, 1000), 1000)]
       /\ InRange(1600000, 1600001) =>
            r = [format |-> "unix_micro", unit |-> "ns",
                 count |-> MulSmall(v, 1000)]
       /\ InRange(116444737, 200000000) =>
            r = [format |-> "filetime", unit |-> "ns",
                 count |-> MulSmall(SubBig(v, ParseInt(116444736, 0)), 100)]

\* GetParserForFile has returned for a path
Dispatched == callArgs.fn = "registry" /\ callResult # << >>

\* The documented order of the registry: each rule with the extensions it is
\* asked for ({} for any) and how it decides ("bound": by the extension
\* alone; "name": by a word in the file name; else the parser's classifier).
DocumentedOrder ==
  << [parser |-> "EvtxParser", exts |-> {".evtx"}, by |-> "bound"],
     [parser |-> "PrefetchParser", exts |-> {".pf"}, by |-> "bound"],
     [parser |-> "WindowsXMLEventParser", exts |-> {".xml"}, by |-> "classifier"],
     [parser |-> "ScheduledTaskXMLParser", exts |-> {".xml"}, by |-> "classifier"],
     [parser |-> "SysmonXMLParser", exts |-> {".xml"}, by |-> "classifier"],
     [parser |-> "GenericXMLParser", exts |-> {".xml"}, by |-> "bound"],
     [parser |-> "CloudTrailParser", exts |-> {".json", ".jsonl"}, by |-> "classifier"],
     [parser |-> "AzureActivityParser", exts |-> {".json", ".jsonl"}, by |-> "classifier"],
     [parser |-> "GCPAuditParser", exts |-> {".json", ".jsonl"}, by |-> "classifier"],
     [parser |-> "JsonParser", exts |-> {".json"}, by |-> "bound"],
     [parser |-> "BrowserHistoryParser", exts |-> {}, by |-> "classifier"],
     [parser |-> "ShellbagsParser", exts |-> {}, by |-> "shellbag"],
     [parser |-> "LogParser", exts |-> {}, by |-> ".log."],
     [parser |-> "PowerShellTranscriptParser", exts |-> {}, by |-> "classifier"],
     [parser |-> "PowerShellScriptBlockParser", exts |-> {}, by |-> "classifier"],
     [parser |-> "MacOSInstallLogParser", exts |-> {}, by |-> "classifier"],
     [parser |-> "MacOSASLParser", exts |-> {}, by |-> "classifier"],
     [parser |-> "MacOSUnifiedLogParser", exts |-> {}, by |-> "classifier"],
     [parser |-> "IISParser", exts |-> {}, by |-> "classifier"],
     [parser |-> "ZeekParser", exts |-> {}, by |-> "classifier"],
     [parser |-> "WebAccessParser", exts |-> {}, by |-> "classifier"],
     [parser |-> "LinuxSyslogParser", exts |-> {}, by |-> "classifier"],
     [parser |-> "WindowsTextParser", exts |-> {}, by |-> "classifier"],
     [parser |-> "WindowsFirewallParser", exts |-> {}, by |-> "classifier"],
     [parser |-> "IptablesParser", exts |-> {}, by |-> "classifier"],
     [parser |-> "CiscoASAParser", exts |-> {}, by |-> "classifier"],
     [parser |-> "CSVArtifactParser", exts |-> {}, by |-> "classifier"],
     [parser |-> "LogParser", exts |-> {}, by |-> "bound"] >>

\* rule r of the documented order accepts the file
RuleAccepts(r, f) ==
  /\ r.exts = {} \/ f.ext \in r.exts
  /\ CASE r.by = "bound" -> TRUE
       [] r.by = "shellbag" -> f.base = "shellbags.txt"
       [] r.by = ".log." ->
            f.base \in {"app.log.1", "access.log.1", "auth.log.1", "kern.log.1"}
       [] OTHER -> CanParse(r.parser, f)

\* C24: GetParserForFile is priority-ordered and total: for any path it
\* returns the parser of the first rule of the documented order that accepts
\* the file, the generic line-log parser when no other rule does, and it
\* always returns a parser.
C24_FirstAcceptingRuleWins ==
  Dispatched =>
    \E i \in 1..Len(DocumentedOrder) :
      /\ RuleAccepts(DocumentedOrder[i], callArgs)
      /\ \A j \in 1..(i - 1) : ~RuleAccepts(DocumentedOrder[j], callArgs)
      /\ callResult[1] = DocumentedOrder[i].parser

\* a web access log under an IIS path: two classifiers accept, IIS is first
C24_Witness ==
  /\ Dispatched
  /\ CanParse("IISParser", callArgs) /\ CanParse("WebAccessParser", callArgs)
  /\ ~CanParse("ZeekParser", callArgs)
  /\ callResult[1] = "IISParser"

\* The known base names with a well-formed line of their format, and what
\* Parse is expected to return for the line.
KnownLogs ==
  { << b, c >> \in { n.base : n \in FileNames } \X
                   {"rfc5424", "rfc3164", "clf", "cbs", "wu"} :
      \/ b \in {"syslog", "auth.log"} /\ c \in {"rfc5424", "rfc3164"}
      \/ b = "access.log" /\ c = "clf"
      \/ b \in {"cbs.log", "windowsupdate.log"} /\ c \in {"cbs", "wu"} }

Expected(c) ==
  CASE c = "rfc5424" ->
         [type |-> "Syslog", host |-> "myhost",
          message |-> << "[", "myapp[123]", "] ", "Test message" >>]
    [] c = "rfc3164" ->
         [type |-> "Syslog", host |-> "oldhost",
          message |-> << "[", "sshd[456]", "] ", "Failed password" >>]
    [] c = "clf" ->
         [type |-> "WebAccess", host |-> "127.0.0.1",
          message |-> << "GET", " ", "/index.html", " (Status: ", "200", ")" >>]
    [] c = "cbs" ->
         [type |-> "WindowsLog", host |-> "",
          message |-> << "[", "Info", "] ",
                         "Cbs    Starting TrustedInstaller..." >>]
    [] c = "wu" ->
         [type |-> "WindowsLog", host |-> "",
          message |-> << "[", "1234", "] ",
                         "5678 Misc Validating signature..." >>]

\* the parser that produces the event type of a known log
ParserOfType(t) ==
  CASE t = "Syslog" -> "LinuxSyslogParser"
    [] t = "WebAccess" -> "WebAccessParser"
    [] t = "WindowsLog" -> "WindowsTextParser"

\* C25: for a file with a known base name (syslog, auth.log, access.log,
\* cbs.log, WindowsUpdate.log) that holds one well-formed line of that
\* format, GetParserForFile gives the format's parser and Parse returns
\* exactly one event with the format's event type, the host of the line,
\* the expected message and a non-zero timestamp.
C25_KnownLogOneEvent ==
  (Dispatched /\ << callArgs.base, callArgs.content >> \in KnownLogs) =>
     /\ callResult[1] = ParserOfType(Expected(callArgs.content).type)
     /\ Len(callResult) = 2 =>
          /\ Len(callResult[2]) = 1
          /\ callResult[2][1].type = Expected(callArgs.content).type
          /\ callResult[2][1].host = Expected(callArgs.content).host
          /\ callResult[2][1].message = Expected(callArgs.content).message
          /\ callResult[2][1].ts # 0

\* the directory run has started its workers and is walking or waiting
InDirectoryRun == pc \in {"walk_check", "walk_send", "close", "wait"}

\* processDirectoryWithContext has returned with every worker gone
ReturnedAllExited ==
  /\ pc \in {"returned", "done"}
  /\ input.isDir
  /\ filesClosed
  /\ \A w \in 1..input.workers : wpc[w] = "exited"

\* the entries of the listing that are files
FilesListed == { i \in 1..Len(input.listing) : Catalog[input.listing[i]].kind # "dir" }

\* C26: a directory run in which the token never fires closes the queue
\* after the walk, has every queued path taken by exactly one worker (the
\* queue is empty and as many files are finished as were listed), sees all
\* its workers exit and returns, whatever the worker count and the capacity.
C26_DirectoryRunDrains ==
  InDirectoryRun ~>
     \/ cancelled
     \/ /\ ReturnedAllExited
        /\ filesChan = << >>
        /\ filesProcessed + filesSkipped + Len(errs) = Cardinality(FilesListed)

\* two workers have drained a queue of capacity one holding two files
C26_Witness ==
  /\ ReturnedAllExited /\ ~cancelled
  /\ filesChan = << >>
  /\ input.workers = 2 /\ input.buf = MaxBuf
  /\ Cardinality(FilesListed) = 2
  /\ filesProcessed + filesSkipped + Len(errs) = 2

\* C27: once the token has fired in a directory run, also while the walker
\* is blocked on a full queue or the workers wait for a path, every worker
\* exits and the run returns the cancellation: a cancelled run never hangs.
C27_CancelledRunReturns ==
  (InDirectoryRun /\ cancelled) ~> (ReturnedAllExited /\ err = "canceled")

\* the walker gave up on a full queue: the run has returned the cancellation
\* with the queue still full and a path never enqueued
C27_Witness ==
  /\ ReturnedAllExited /\ err = "canceled"
  /\ walkErr = "canceled"
  /\ Len(filesChan) = QueueCap
  /\ walkIdx <= Len(input.listing)

\* idx_events_timestamp is in the database file
IndexExists == \E i \in DOMAIN file : file[i] = IndexEntry

\* C28: for the on-disk table sink, the index idx_events_timestamp does not
\* exist at any point before Close has committed the final transaction, and
\* it exists after Close has returned successfully.
C28_IndexAfterFinalCommit ==
  sinkIn.kind = "sqlite" =>
    /\ proc # "closed" => ~IndexExists
    /\ proc = "closed" => IndexExists

\* the rows of the events table that are committed
CommittedRows == Len(SelectSeq(file, LAMBDA r : r # IndexEntry))

\* Prepare calls so far on an open writer: output/sqlite.go prepares the
\* INSERT once on the database and binds it to each transaction; part_011
\* prepares it on the first transaction and again on every fresh one.
PreparedStatements ==
  IF sinkIn.impl = "part_011" THEN 1 + CommittedRows \div BatchSize ELSE 1

\* C29: for the on-disk table sink, after any sequence of Write calls the
\* inserted rows not yet committed are fewer than 10,000 (FlushEvery): the
\* open transaction is committed and a fresh one begun each time 10,000 rows
\* have accumulated, counted across batch boundaries, and one prepared
\* insert statement serves them all.
C29_CommitEveryTenThousand ==
  (sinkIn.kind = "sqlite" /\ proc \in {"run", "returned"}) =>
    /\ Len(wbuf) < FlushEvery
    /\ CommittedRows % FlushEvery = 0
    /\ PreparedStatements = 1

\* the file has left the queue of the directory run: a worker received it
Dequeued(c) ==
  /\ \E i \in 1..(walkIdx - 1) : input.listing[i] = c
  /\ \A i \in DOMAIN filesChan : filesChan[i] # c

\* the files whose batch a Write call took and returned nil for: the batch
\* exists, the sink rejects none of its events, and the file was reached (it
\* left the queue; a single-file run got past its entry check)
WrittenFiles ==
  { c \in ListedFiles :
      /\ ValidRun
      /\ Batch(c).err = "nil" /\ ~HitsBadEvent(c)
      /\ IF input.isDir THEN Dequeued(c) ELSE err # "canceled" }

RECURSIVE EventsOf(_)
EventsOf(S) ==
  IF S = {} THEN 0
  ELSE LET c == CHOOSE x \in S : TRUE
       IN Len(Batch(c).events) + EventsOf(S \ {c})

\* C30: at the end of any run parsed_events, the processor's event counter,
\* is the number of events in the batches whose Write returned nil: the
\* events of a file whose parse or write failed are not counted; and the
\* files_processed counter of a directory run is the number of files whose
\* batch was written successfully.
C30_CountersMatchWrites ==
  pc = "done" =>
    /\ status.parsed_events = EventsOf(WrittenFiles)
    /\ totalEventsProcessed = EventsOf(WrittenFiles)
    /\ input.isDir => filesProcessed = Cardinality(WrittenFiles)

\* a directory run has ended in which one file was written whole and the
\* Write of another failed after the sink had taken some of its events
C30_Witness ==
  /\ DirRun /\ pc = "done"
  /\ WrittenFiles # {}
  /\ status.parsed_events >= 1
  /\ \E c \in ListedFiles :
       WriteFailed(c) /\ Len(BeforeFailure(c)) >= 1
  /\ status.parsed_events < Len(out)

\* what C39 says of a call that has returned
RetryOutcome ==
  /\ calls <= retryIn.max
  /\ retryIn.max >= 1 => calls >= 1
  /\ \A k \in 1..calls : Fn(k) = NoErr => k = calls
  /\ IF calls >= 1 /\ Fn(calls) = NoErr THEN rret = NoErr
     ELSE calls >= 1 /\ rret = Fn(calls)

\* C39 as stated: WithRetryConfig and WithRetryContextConfig invoke fn at
\* most MaxAttempts times, stop at the first success and return nil, and
\* otherwise return the error of the last attempt; for MaxAttempts >= 1 fn
\* is invoked at least once.
C39_AtMostMaxAttempts ==
  (rpc = "done" /\ retryIn.max >= 1) => RetryOutcome

\* C39, amended: the same for every call whose context was not cancelled
\* when it returned; a call that returns the context's error has invoked fn
\* fewer than MaxAttempts times, possibly never, and fn never succeeded.
C39_AtMostMaxAttemptsUnlessCancelled ==
  (rpc = "done" /\ retryIn.max >= 1) =>
    /\ calls <= retryIn.max
    /\ ~ctxFired => RetryOutcome
    /\ rret = CtxErr =>
         /\ ctxFired /\ calls < retryIn.max
         /\ \A k \in 1..calls : Fn(k) # NoErr
    /\ rret # CtxErr => RetryOutcome

\* every permitted attempt was made and failed: the last error is returned
C39_Witness ==
  /\ rpc = "done" /\ ~ctxFired
  /\ retryIn.max = MaxAttemptsTried
  /\ calls = MaxAttemptsTried
  /\ rret = [kind |-> "fn", n |-> MaxAttemptsTried]

\* C40: once the context is cancelled, before an attempt (at the loop's
\* check) or during a backoff wait, WithRetryContextConfig does not invoke
\* fn again and what it returns is the context's error.
C40_CancelStopsRetries ==
  [][ (retryIn.fn = "WithRetryContextConfig" /\ ctxFired
         /\ rpc \in {"loop", "wait"} /\ attempt <= retryIn.max)
        => /\ calls' = calls
           /\ rpc' \in {"loop", "done"}
           /\ rpc' = "done" => rret' = CtxErr ]_vars

\* the context was cancelled during a backoff wait after a failed attempt,
\* and the call has returned the context's error with attempts left
C40_Witness ==
  /\ rpc = "done" /\ rret = CtxErr
  /\ calls = 1 /\ retryIn.max = MaxAttemptsTried
  /\ attempt = 1

\* C33: a rotated log whose name a format classifier accepts (access.log.N
\* for the web-access parser, auth.log.N or kern.log.N for the Linux syslog
\* parser) is dispatched by GetParserForFile to that format parser.
C33_RotatedLogToFormatParser ==
  Dispatched =>
    /\ callArgs.base = "access.log.1" => callResult[1] = "WebAccessParser"
    /\ callArgs.base \in {"auth.log.1", "kern.log.1"}
         => callResult[1] = "LinuxSyslogParser"

C31_ClosedAfterWorkersExit ==
  /\ progressClosed => \A w \in Workers : wpc[w] \in {"idle", "exited"}
  /\ progressClosed => pc = "done"

\* the channel was closed after a cancelled directory run in which two
\* workers had been at work
C31_Witness ==
  /\ progressClosed /\ cancelled
  /\ input.isDir /\ input.workers = 2
  /\ \A w \in Workers : wpc[w] = "exited"
  /\ filesProcessed >= 1

\* C36: after a /config request answered 409 or 400, s.config is what it
\* was before the request
C36_RejectedConfigLeavesConfig ==
  (resp # << >> /\ resp.req = "config" /\ resp.code \in {400, 409})
    => srvConfig = resp.before

\* C37: no call of Server.Stop panics, whichever caller comes second
C37_StopTwiceNoPanic == procState # "panicked"

\* C34: at most one processing goroutine is running at any time, whatever
\* the order of /start, /stop and /config (a /start during a run gets 409)
C34_AtMostOneGoroutine == Cardinality(RunningGoroutines) <= 1

\* C35: every run /start began eventually ends with isProcessing reset and
\* Cleanup executed on its application
C35_RunEndsCleaned ==
  \A r \in Runs :
    (gpc[r] = "process") ~> (gpc[r] = "gone" /\ cleaned[r] /\ (isProcessing => cancelFunc # r))

\* C38: at most one goroutine started by StartProcessing is active at any
\* time, whatever the order of StartProcessing and StopProcessing calls
C38_AtMostOneActive == Cardinality(ActiveGoroutines) <= 1

====
